---- MODULE Spec2Model ----
(***************************************************************************)
(* Model of the stability-gated capture state machine of the tuner GUI     *)
(* (tuner-gui/src/main.rs) and of the measurement selector                 *)
(* (tuner-core/src/capture_processing.rs, inharmonicity.rs, tuning.rs).    *)
(*                                                                         *)
(* Option<T> is modelled as a sequence: None is <<>> and Some(v) is <<v>>. *)
(* Confidences (f32 in 0.0..1.0) are counted in hundredths, so the         *)
(* threshold 0.9 is 90.  Frequencies are whole Hz, cents whole cents.  NaN *)
(* is not part of the confidence domain: detect_pitch_pyin only ever       *)
(* returns 1.0 - lowest_yin_val with lowest_yin_val a finite buffer value. *)
(*                                                                         *)
(* Display-only fields of TunerApp (smoothing_buffer, last_analysis,       *)
(* tuning_mode, the panel visibility flags) never feed back into the       *)
(* capture logic and are left out of the state.                            *)
(***************************************************************************)
EXTENDS Integers, Sequences, FiniteSets, TLC

(***************************************************************************)
(* Bounds of the model.                                                    *)
(***************************************************************************)
\* Size of the stability window.  main.rs:32 sets it to 20; the handlers are
\* parametric in it and the model runs them on a window of 3.
STABILITY_TARGET == 3

\* The analysis channel is unbounded; the worker of the model sends at most
\* this many results in one run.
MaxFrames == 4

\* Longest buffer handed to process() when it is exercised on its own.
MaxLen == 3

\* Longest partial list handed to calculate_b_value() on its own.
MaxPartials == 3

\* Samples of one audio frame.  audio.rs:22 sets it to 2048; the capture
\* callback and the worker are parametric in it and the model frames 2.
BUFFER_SIZE == 2

\* The device delivers at most MaxSamples samples in one run, in chunks of
\* 1 to MaxChunk samples.
MaxSamples == 6
MaxChunk == 3
\* SaveProfile and LoadProfile messages handled in one run
MaxIo == 2
\* The frames handed to the pitch detectors have FrameSize samples.
FrameSize == 12

(***************************************************************************)
(* Program constants.                                                      *)
(***************************************************************************)
\* main.rs:33, 0.9 in hundredths
STABILITY_CONFIDENCE_THRESHOLD == 90

None == <<>>
Some(v) == <<v>>
IsSome(o) == o # <<>>
Unwrap(o) == o[1]

(***************************************************************************)
(* tuning.rs: the 88 note names and the name -> key index map.             *)
(***************************************************************************)
NOTE_NAMES == <<"A", "A#", "B", "C", "C#", "D", "D#", "E", "F", "F#", "G", "G#">>

KeyIndexes == 0..87

\* a variant of NoteName whose octave changes at A instead of C
NoteName_octave_at_A(i) == NOTE_NAMES[(i % 12) + 1] \o ToString(i \div 12)

\* name of key i: format!("{}{}", NOTE_NAMES[i % 12], (i + 9) / 12)
NoteName(i) == NOTE_NAMES[(i % 12) + 1] \o ToString((i + 9) \div 12)

\* NOTE_MAP: collect() into a BTreeMap keeps, for a repeated name, the entry
\* inserted last; get(name).unwrap_or(&0) gives 0 for an unknown name.
get_key_index_from_name(name) ==
    LET hits == {i \in KeyIndexes : NoteName(i) = name}
    IN  IF hits = {} THEN 0
        ELSE CHOOSE i \in hits : \A j \in hits : j <= i

\* NOTES[i].frequency = 440 * 2^((i - 48) / 12), in thousandths of a Hz: the
\* twelve notes A0 .. G#1 rounded to the thousandth, doubled once per octave
NOTE_MILLIHZ ==
    <<27500, 29135, 30868, 32703, 34648, 36708, 38891, 41203, 43654, 46249, 48999, 51913>>

NoteFrequency(i) == NOTE_MILLIHZ[(i % 12) + 1] * (2 ^ (i \div 12))

\* |NOTES[i].frequency - freq|, freq in whole Hz
NoteDistance(i, freq) ==
    IF NoteFrequency(i) >= 1000 * freq THEN NoteFrequency(i) - 1000 * freq
    ELSE 1000 * freq - NoteFrequency(i)

\* find_nearest_note(freq): the index of the closest note; the function
\* returns its name and its frequency.  Iterator::min_by replaces the kept
\* note only by a strictly nearer one, so the first of equal minima wins.
\* (The first two conjuncts are instances of the last two, tried first.)
find_nearest_note(freq) ==
    CHOOSE i \in KeyIndexes :
        /\ i < 87 => NoteDistance(i, freq) <= NoteDistance(i + 1, freq)
        /\ i > 0 => NoteDistance(i, freq) < NoteDistance(i - 1, freq)
        /\ \A j \in KeyIndexes : NoteDistance(i, freq) <= NoteDistance(j, freq)
        /\ \A j \in 0..(i - 1) : NoteDistance(i, freq) < NoteDistance(j, freq)

\* calculate_cents_deviation(freq, target_freq) = 1200 * log2(freq / target),
\* in whole cents, by the first-order expansion 1200 / ln 2 * (freq - target)
\* / target, which is within one cent of it for a ratio within a quarter
\* tone of 1; freq in whole Hz, target in thousandths of a Hz
calculate_cents_deviation(freq, target_freq) ==
    (1731 * (1000 * freq - target_freq)) \div target_freq

(***************************************************************************)
(* inharmonicity.rs: KeyMeasurement::calculate_b_value.                    *)
(* The regression is carried out exactly, on integers: every y = (f/n)^2   *)
(* is scaled by L, the least common multiple of the n^2, which changes     *)
(* neither the quotient slope / intercept nor the sign of the intercept.   *)
(***************************************************************************)
Abs(a) == IF a < 0 THEN -a ELSE a

RECURSIVE GCD(_, _)
GCD(a, b) == IF b = 0 THEN a ELSE GCD(b, a % b)

LCM(a, b) == (a \div GCD(a, b)) * b

\* a rational in lowest terms with a positive denominator
Ratio(n, d) ==
    LET g == GCD(Abs(n), Abs(d))
        s == IF d < 0 THEN -1 ELSE 1
    IN  [num |-> s * (n \div g), den |-> s * (d \div g)]

RECURSIVE SumOver(_, _, _)
\* sum of F[i] for i in lo..hi
SumOver(F, lo, hi) == IF lo > hi THEN 0 ELSE F[lo] + SumOver(F, lo + 1, hi)

RECURSIVE LcmOver(_, _, _)
LcmOver(F, lo, hi) == IF lo > hi THEN 1 ELSE LCM(F[lo], LcmOver(F, lo + 1, hi))

\* .filter(|p| p.number > 0 && p.frequency > 0.0)
ValidPartials(partials) ==
    SelectSeq(partials, LAMBDA p : p.number > 0 /\ p.frequency > 0)

\* a variant of RegressionB that divides the intercept by the slope
RegressionB_inverted(pts) ==
    LET N   == Len(pts)
        X   == [i \in 1..N |-> pts[i].number * pts[i].number]
        L   == LcmOver(X, 1, N)
        Y   == [i \in 1..N |-> pts[i].frequency * pts[i].frequency * (L \div X[i])]
        Sx  == SumOver(X, 1, N)
        Sy  == SumOver(Y, 1, N)
        Sxx == SumOver([i \in 1..N |-> X[i] * X[i]], 1, N)
        Sxy == SumOver([i \in 1..N |-> X[i] * Y[i]], 1, N)
        D   == N * Sxx - Sx * Sx
        slopeNum     == N * Sxy - Sx * Sy
        interceptNum == Sy * Sxx - Sxy * Sx
    IN  IF N = 0 \/ D = 0 THEN None
        ELSE IF Abs(interceptNum) > ((L * D) \div 1000000)
             THEN Some(Ratio(interceptNum, slopeNum))
             ELSE None

\* linreg::linear_regression(&xs, &ys) followed by the test on the intercept.
\* The crate fails on no points and on a zero sum of squares of x - mean(x)
\* (slope 0/0 is NaN); otherwise slope = Sxy/Sxx, intercept = ym - slope*xm.
RegressionB(pts) ==
    LET N   == Len(pts)
        X   == [i \in 1..N |-> pts[i].number * pts[i].number]
        L   == LcmOver(X, 1, N)
        Y   == [i \in 1..N |-> pts[i].frequency * pts[i].frequency * (L \div X[i])]
        Sx  == SumOver(X, 1, N)
        Sy  == SumOver(Y, 1, N)
        Sxx == SumOver([i \in 1..N |-> X[i] * X[i]], 1, N)
        Sxy == SumOver([i \in 1..N |-> X[i] * Y[i]], 1, N)
        D   == N * Sxx - Sx * Sx
        slopeNum     == N * Sxy - Sx * Sy
        interceptNum == Sy * Sxx - Sxy * Sx
    IN  IF N = 0 \/ D = 0 THEN None
        \* intercept.abs() > 1e-6, the intercept being interceptNum / (L * D)
        ELSE IF Abs(interceptNum) > ((L * D) \div 1000000)
             THEN Some(Ratio(slopeNum, interceptNum))
             ELSE None

\* a variant of calculate_b_value that gives no result when the slope is zero
calculate_b_value_no_zero(partials) ==
    IF Len(partials) < 3 THEN None
    ELSE LET b == RegressionB(ValidPartials(partials))
         IN  IF IsSome(b) /\ Unwrap(b).num = 0 THEN None ELSE b

\* the Option<f32> that calculate_b_value returns; the length test comes
\* before the filter
calculate_b_value(partials) ==
    IF Len(partials) < 3 THEN None
    ELSE RegressionB(ValidPartials(partials))


(***************************************************************************)
(* pitch.rs: the spectrum refiner and the partial finder.                  *)
(* A magnitude spectrum is a sequence of magnitudes, bin b at position     *)
(* b + 1.  The magnitudes of the model are 0 and powers of two, so that    *)
(* their natural logarithms are whole multiples of ln 2 and the quotient   *)
(* of logarithms that gives the sub-bin offset is an exact rational.       *)
(* Frequencies are whole Hz: a computed frequency is rounded to the        *)
(* nearest Hz where the code rounds to the nearest f32.                    *)
(***************************************************************************)
Mag(spectrum, bin) == spectrum[bin + 1]

\* The sample rate of the model and the number of bins of its spectra
\* (audio.rs:55 asks the device for 44100 Hz and spectrum_to_magnitudes
\* keeps BUFFER_SIZE / 2 = 1024 bins): 16 bins of 100 Hz.
SAMPLE_RATE == 3200
SpectrumLen == 16

\* The spectra of the model hold a tone of about 300 Hz: harmonic h has its
\* peak in bin 3h, and the three magnitudes around bin 3h come from a level
\* (left, centre, right); every other bin holds the background 1.  With the
\* fundamental at 1024 the threshold of find_partials is 51.2.
Level ==
    [ absent     |-> <<1, 1, 1>>,
      weak       |-> <<4, 16, 8>>,          \* a peak below the threshold
      strong     |-> <<64, 256, 128>>,      \* a peak a sixth of a bin above 3h
      strong_flat |-> <<128, 256, 64>>,     \* a peak a sixth of a bin below 3h
      plateau    |-> <<256, 256, 256>>,     \* above the threshold, logarithms collinear
      isolated   |-> <<0, 256, 0>>,         \* above the threshold, neighbours of magnitude 0
      loud       |-> <<256, 1024, 256>>,    \* a symmetric peak, exactly in bin 3h
      loud_sharp |-> <<256, 1024, 512>>,    \* a peak a sixth of a bin above 3h
      loud_alone |-> <<0, 1024, 0>> ]       \* neighbours of magnitude 0

\* the spectrum whose harmonics 1..5 have the levels named by shape
SpectrumOf(shape) ==
    [p \in 1..SpectrumLen |->
        IF p \div 3 = 0 THEN 1 ELSE Level[shape[p \div 3]][(p % 3) + 1]]

\* the spectrum of silence
SilentSpectrum == [p \in 1..SpectrumLen |-> 0]

RECURSIVE Log2(_)
\* f32::ln in units of ln 2, for a power of two
Log2(m) == IF m <= 1 THEN 0 ELSE 1 + Log2(m \div 2)

\* a / b rounded to the nearest integer, b > 0
RoundDiv(a, b) == (2 * a + b) \div (2 * b)

Min(a, b) == IF a < b THEN a ELSE b
Max(a, b) == IF a > b THEN a ELSE b

\* a variant of parabolic_interpolation_offset with the denominator negated
parabolic_interpolation_offset_negated(y_left, y_center, y_right) ==
    LET denominator == 2 * y_center - y_left - y_right
    IN  IF denominator = 0 THEN None
        ELSE Some(Ratio(y_left - y_right, 2 * denominator))

\* parabolic_interpolation_offset(y_left, y_center, y_right), the y being
\* whole multiples of ln 2: |denominator| < 1e-6 only when it is 0
parabolic_interpolation_offset(y_left, y_center, y_right) ==
    LET denominator == y_left - 2 * y_center + y_right
    IN  IF denominator = 0 THEN None
        ELSE Some(Ratio(y_left - y_right, 2 * denominator))

\* interpolate_peak_frequency(spectrum_magnitudes, peak_bin, sample_rate);
\* ln of a zero magnitude is -inf, which is not finite
interpolate_peak_frequency(spectrum_magnitudes, peak_bin, sample_rate) ==
    IF peak_bin = 0 \/ peak_bin >= Len(spectrum_magnitudes) - 1 THEN None
    ELSE IF \/ Mag(spectrum_magnitudes, peak_bin - 1) = 0
            \/ Mag(spectrum_magnitudes, peak_bin) = 0
            \/ Mag(spectrum_magnitudes, peak_bin + 1) = 0
         THEN None
         ELSE LET y1 == Log2(Mag(spectrum_magnitudes, peak_bin - 1))
                  y2 == Log2(Mag(spectrum_magnitudes, peak_bin))
                  y3 == Log2(Mag(spectrum_magnitudes, peak_bin + 1))
                  offset == parabolic_interpolation_offset(y1, y2, y3)
              IN  IF IsSome(offset)
                  THEN LET buffer_size == Len(spectrum_magnitudes) * 2
                           \* (peak_bin + offset) * sample_rate / buffer_size
                           final_freq ==
                               RoundDiv((peak_bin * Unwrap(offset).den + Unwrap(offset).num)
                                            * sample_rate,
                                        Unwrap(offset).den * buffer_size)
                       IN  IF final_freq > 0 THEN Some(final_freq) ELSE None
                  ELSE None

RECURSIVE max_by_magnitude_from(_, _, _, _)
\* Iterator::max_by over spectrum_magnitudes[start_bin..=end_bin]: the later
\* bin replaces the kept one unless the kept one is strictly greater
max_by_magnitude_from(spectrum, x, i, end_bin) ==
    IF i > end_bin THEN x
    ELSE max_by_magnitude_from(spectrum,
                               IF Mag(spectrum, x) > Mag(spectrum, i) THEN x ELSE i,
                               i + 1, end_bin)

\* start_bin + offset of the peak of a non-empty window
max_by_magnitude(spectrum, start_bin, end_bin) ==
    max_by_magnitude_from(spectrum, start_bin, start_bin + 1, end_bin)

\* a variant of refine_from_spectrum that gives None when the interpolation fails
refine_from_spectrum_no_fallback(spectrum_magnitudes, rough_freq, sample_rate) ==
    IF rough_freq <= 0 THEN Some(rough_freq)
    ELSE LET len == Len(spectrum_magnitudes)
             buffer_size == len * 2
             start_bin == IF rough_freq * buffer_size < 2 * sample_rate THEN 0
                          ELSE (rough_freq * buffer_size - 2 * sample_rate) \div sample_rate
             end_bin == IF rough_freq * buffer_size + 2 * sample_rate > (len - 1) * sample_rate
                        THEN len - 1
                        ELSE (rough_freq * buffer_size + 2 * sample_rate) \div sample_rate
         IN  IF start_bin >= end_bin THEN Some(rough_freq)
             ELSE interpolate_peak_frequency(
                      spectrum_magnitudes,
                      max_by_magnitude(spectrum_magnitudes, start_bin, end_bin),
                      sample_rate)

\* refine_from_spectrum(spectrum_magnitudes, rough_freq, sample_rate):
\* target_bin = rough_freq * buffer_size / sample_rate, the window is
\* target_bin - 2 .. target_bin + 2 truncated and clamped, and every path
\* returns Some
refine_from_spectrum(spectrum_magnitudes, rough_freq, sample_rate) ==
    IF rough_freq <= 0 THEN Some(rough_freq)
    ELSE LET len == Len(spectrum_magnitudes)
             buffer_size == len * 2
             start_bin == IF rough_freq * buffer_size < 2 * sample_rate THEN 0
                          ELSE (rough_freq * buffer_size - 2 * sample_rate) \div sample_rate
             end_bin == IF rough_freq * buffer_size + 2 * sample_rate > (len - 1) * sample_rate
                        THEN len - 1
                        ELSE (rough_freq * buffer_size + 2 * sample_rate) \div sample_rate
         IN  IF start_bin >= end_bin THEN Some(rough_freq)
             ELSE LET peak_bin == max_by_magnitude(spectrum_magnitudes, start_bin, end_bin)
                      refined == interpolate_peak_frequency(spectrum_magnitudes, peak_bin,
                                                            sample_rate)
                  IN  IF IsSome(refined) THEN refined ELSE Some(rough_freq)

RECURSIVE find_partials_from(_, _, _, _, _, _)
\* the loop of find_partials from harmonic n on, partial_freqs being the
\* frequencies pushed so far; the threshold 0.05 * mag is kept as mag
find_partials_from(spectrum_magnitudes, fundamental_freq, sample_rate, max_partials, n, partial_freqs) ==
    IF n > max_partials + 1 THEN partial_freqs
    \* expected_freq > sample_rate / 2: break
    ELSE IF 2 * fundamental_freq * n > sample_rate THEN partial_freqs
    ELSE LET len == Len(spectrum_magnitudes)
             buffer_size == len * 2
             mag == Mag(spectrum_magnitudes,
                        RoundDiv(fundamental_freq * buffer_size, sample_rate))
             \* target_bin -/+ bin_width / 2 = (4n -/+ 1) * f * buffer_size / (4 * sample_rate)
             start_bin ==
                 Min((((4 * n - 1) * fundamental_freq * buffer_size) \div (4 * sample_rate)),
                     len - 1)
             end_bin ==
                 Max(Min((((4 * n + 1) * fundamental_freq * buffer_size) \div (4 * sample_rate)),
                         len - 1),
                     start_bin)
             next(freqs) == find_partials_from(spectrum_magnitudes, fundamental_freq,
                                               sample_rate, max_partials, n + 1, freqs)
         IN  IF start_bin >= end_bin THEN next(partial_freqs)
             ELSE LET peak_bin == max_by_magnitude(spectrum_magnitudes, start_bin, end_bin)
                      magnitude == Mag(spectrum_magnitudes, peak_bin)
                  IN  \* magnitude > peak_threshold
                      IF 20 * magnitude > mag
                      THEN LET refined_freq ==
                                   interpolate_peak_frequency(spectrum_magnitudes, peak_bin,
                                                              sample_rate)
                           IN  IF IsSome(refined_freq)
                               THEN next(Append(partial_freqs, Unwrap(refined_freq)))
                               ELSE next(partial_freqs)
                      ELSE next(partial_freqs)

\* find_partials(spectrum_magnitudes, fundamental_freq, sample_rate, max_partials)
find_partials(spectrum_magnitudes, fundamental_freq, sample_rate, max_partials) ==
    IF fundamental_freq <= 0 THEN <<>>
    ELSE LET fundamental_bin ==
                 RoundDiv(fundamental_freq * Len(spectrum_magnitudes) * 2, sample_rate)
         IN  \* spectrum_magnitudes.get(..) is None, or the magnitude is 0
             IF fundamental_bin >= Len(spectrum_magnitudes) THEN <<>>
             ELSE IF Mag(spectrum_magnitudes, fundamental_bin) = 0 THEN <<>>
             ELSE find_partials_from(spectrum_magnitudes, fundamental_freq, sample_rate,
                                     max_partials, 2, <<>>)


(***************************************************************************)
(* pitch.rs: the YIN and pYIN detectors.  Samples and the amplitude        *)
(* threshold are whole numbers, the values of the difference function are  *)
(* exact rationals, frequencies whole Hz, confidence in hundredths.        *)
(***************************************************************************)
\* a < b for two rationals
RatLess(a, b) == a.num * b.den < b.num * a.den

\* yin_difference, steps 1 and 2: the squared difference at lag tau
squared_difference(signal, frame_size, tau) ==
    SumOver([i \in 1..(frame_size \div 2) |->
                (signal[i] - signal[i + tau]) * (signal[i] - signal[i + tau])],
            1, frame_size \div 2)

\* yin_difference, step 3: running_sum after lag tau
running_sum(signal, frame_size, tau) ==
    SumOver([k \in 1..tau |-> squared_difference(signal, frame_size, k)], 1, tau)

\* yin_difference(signal, frame_size, yin_buffer): the buffer it leaves,
\* yin_buffer[tau] at position tau + 1; the sums are whole numbers, so
\* running_sum > 1e-6 when it is not 0.  The buffer has frame_size / 2 places.
yin_difference(signal, frame_size) ==
    [t \in 1..(frame_size \div 2) |->
        IF t = 1 THEN Ratio(1, 1)
        ELSE IF running_sum(signal, frame_size, t - 1) > 0
             THEN Ratio(squared_difference(signal, frame_size, t - 1) * (t - 1),
                        running_sum(signal, frame_size, t - 1))
             ELSE Ratio(1, 1)]

\* rms < amplitude_threshold; the RMS of an empty frame is NaN and no
\* comparison with NaN is true
rms_below(signal, amplitude_threshold) ==
    /\ Len(signal) > 0
    /\ SumOver([i \in 1..Len(signal) |-> signal[i] * signal[i]], 1, Len(signal))
          < amplitude_threshold * amplitude_threshold * Len(signal)

\* parabolic_interpolation_offset on three rationals, brought to their common
\* denominator L: |denominator| < 1e-6 is |l - 2c + r| * 1e6 < L
parabolic_interpolation_offset_of_ratios(y_left, y_center, y_right) ==
    LET L == LCM(LCM(y_left.den, y_center.den), y_right.den)
        l == y_left.num * (L \div y_left.den)
        c == y_center.num * (L \div y_center.den)
        r == y_right.num * (L \div y_right.den)
        denominator == l - 2 * c + r
    IN  IF Abs(denominator) <= (L - 1) \div 1000000 THEN None
        ELSE Some(Ratio(l - r, 2 * denominator))

\* period as f32 + offset, with offset = ...unwrap_or(0.0)
period_float_of(yin_buffer, period) ==
    LET offset == parabolic_interpolation_offset_of_ratios(
                      yin_buffer[period], yin_buffer[period + 1], yin_buffer[period + 2])
    IN  IF IsSome(offset)
        THEN Ratio(period * Unwrap(offset).den + Unwrap(offset).num, Unwrap(offset).den)
        ELSE Ratio(period, 1)

\* frequency.is_finite() && frequency > 20.0, for frequency = sample_rate / period_float
audible(sample_rate, period_float) ==
    /\ period_float.num > 0
    /\ sample_rate * period_float.den > 20 * period_float.num

\* what a call of a detector leaves: it panicked or returned result, with
\* the period it selected (0 when none) and whether yin_difference ran
Outcome(panicked, result, period, difference_computed) ==
    [returned |-> TRUE, panicked |-> panicked, result |-> result, period |-> period,
     difference_computed |-> difference_computed]

NotCalled ==
    [returned |-> FALSE, panicked |-> FALSE, result |-> None, period |-> 0,
     difference_computed |-> FALSE]

RECURSIVE yin_first_dip(_, _, _)
\* detect_pitch_yin, steps 4 and 5: the loop over tau from tau on, with break
yin_first_dip(yin_buffer, tau, half) ==
    IF tau >= half THEN 0
    ELSE IF /\ RatLess(yin_buffer[tau + 1], Ratio(1, 10))
            /\ RatLess(yin_buffer[tau + 1], yin_buffer[tau])
         THEN tau
         ELSE yin_first_dip(yin_buffer, tau + 1, half)

\* detect_pitch_yin(signal, sample_rate, amplitude_threshold)
detect_pitch_yin(signal, sample_rate, amplitude_threshold) ==
    LET frame_size == Len(signal)
        half == frame_size \div 2
    IN  IF rms_below(signal, amplitude_threshold) THEN Outcome(FALSE, None, 0, FALSE)
        \* yin_buffer[0] = 1.0 on an empty buffer: index out of bounds
        ELSE IF half = 0 THEN Outcome(TRUE, None, 0, TRUE)
        ELSE LET yin_buffer == yin_difference(signal, frame_size)
                 period == yin_first_dip(yin_buffer, 2, half)
             IN  IF period = 0 THEN Outcome(FALSE, None, 0, TRUE)
                 ELSE IF period + 1 >= half THEN Outcome(FALSE, None, period, TRUE)
                 ELSE LET period_float == period_float_of(yin_buffer, period)
                      IN  IF audible(sample_rate, period_float)
                          THEN Outcome(FALSE,
                                       Some(RoundDiv(sample_rate * period_float.den,
                                                     period_float.num)),
                                       period, TRUE)
                          ELSE Outcome(FALSE, None, period, TRUE)

\* a variant of pyin_best_dip that keeps the first dip it finds
pyin_first_dip(yin_buffer, tau, last, best_period, lowest_yin_val) ==
    LET dips == {t \in tau..(last - 1) :
                    /\ RatLess(yin_buffer[t + 1], yin_buffer[t])
                    /\ RatLess(yin_buffer[t + 1], yin_buffer[t + 2])}
    IN  IF dips = {} THEN <<best_period, lowest_yin_val>>
        ELSE LET t == CHOOSE t \in dips : \A u \in dips : t <= u
             IN  <<t, Some(yin_buffer[t + 1])>>

RECURSIVE pyin_best_dip(_, _, _, _, _)
\* detect_pitch_pyin, the loop over tau in 2..(frame_size / 2 - 1) from tau
\* on; lowest_yin_val is None while it is f32::INFINITY
pyin_best_dip(yin_buffer, tau, last, best_period, lowest_yin_val) ==
    IF tau >= last THEN <<best_period, lowest_yin_val>>
    ELSE LET prev == yin_buffer[tau]
             current == yin_buffer[tau + 1]
             next == yin_buffer[tau + 2]
         IN  IF /\ RatLess(current, prev)
                /\ RatLess(current, next)
                /\ (~IsSome(lowest_yin_val) \/ RatLess(current, Unwrap(lowest_yin_val)))
             THEN pyin_best_dip(yin_buffer, tau + 1, last, tau, Some(current))
             ELSE pyin_best_dip(yin_buffer, tau + 1, last, best_period, lowest_yin_val)

\* detect_pitch_pyin(signal, sample_rate, amplitude_threshold)
detect_pitch_pyin(signal, sample_rate, amplitude_threshold) ==
    LET frame_size == Len(signal)
        half == frame_size \div 2
    IN  IF frame_size < 4 THEN Outcome(FALSE, None, 0, FALSE)
        ELSE IF rms_below(signal, amplitude_threshold) THEN Outcome(FALSE, None, 0, FALSE)
        ELSE LET yin_buffer == yin_difference(signal, frame_size)
                 best == pyin_best_dip(yin_buffer, 2, half - 1, 0, None)
                 best_period == best[1]
                 lowest_yin_val == best[2]
             IN  \* best_period == 0 || lowest_yin_val > CLARITY_THRESHOLD
                 IF best_period = 0 THEN Outcome(FALSE, None, 0, TRUE)
                 ELSE IF RatLess(Ratio(1, 10), Unwrap(lowest_yin_val))
                      THEN Outcome(FALSE, None, best_period, TRUE)
                 ELSE LET period_float == period_float_of(yin_buffer, best_period)
                          confidence ==
                              RoundDiv(100 * (Unwrap(lowest_yin_val).den
                                                - Unwrap(lowest_yin_val).num),
                                       Unwrap(lowest_yin_val).den)
                      IN  IF audible(sample_rate, period_float)
                          THEN Outcome(FALSE,
                                       Some(<<RoundDiv(sample_rate * period_float.den,
                                                       period_float.num),
                                              confidence>>),
                                       best_period, TRUE)
                          ELSE Outcome(FALSE, None, best_period, TRUE)


(***************************************************************************)
(* capture_processing.rs: the measurement selector.                        *)
(***************************************************************************)
\* lib.rs AnalysisResult
AnalysisResult(freq, conf, cents, name, spectrum, parts) ==
    [detected_frequency |-> freq, confidence |-> conf, cents_deviation |-> cents,
     note_name |-> name, spectrogram_data |-> spectrum, partials |-> parts]

Partial(n, f) == [number |-> n, frequency |-> f]

KeyMeasurement(k, parts, b) == [key_index |-> k, partials |-> parts, calculated_b |-> b]

\* a variant of partial_cmp with its operands swapped
partial_cmp_swapped(a, b) ==
    IF b < a THEN "Less" ELSE IF b > a THEN "Greater" ELSE "Equal"

\* f32::partial_cmp on two confidences that are numbers
partial_cmp(a, b) ==
    IF a < b THEN "Less" ELSE IF a > b THEN "Greater" ELSE "Equal"

\* the comparison closure of max_by: confidence.unwrap_or(0.0) on both sides
compare_confidence(a, b) ==
    LET conf_a == IF IsSome(a.confidence) THEN Unwrap(a.confidence) ELSE 0
        conf_b == IF IsSome(b.confidence) THEN Unwrap(b.confidence) ELSE 0
    IN  partial_cmp(conf_a, conf_b)

RECURSIVE max_by_from(_, _, _)
\* Iterator::max_by is reduce(|x, y| match compare(&x, &y) { Greater => x, _ => y }):
\* x is the best frame of buffer[1..i-1], y is buffer[i].
max_by_from(buffer, x, i) ==
    IF i > Len(buffer) THEN x
    ELSE max_by_from(buffer,
                     IF compare_confidence(buffer[x], buffer[i]) = "Greater" THEN x ELSE i,
                     i + 1)

RECURSIVE max_by_keep_first_from(_, _, _)
max_by_keep_first_from(buffer, x, i) ==
    IF i > Len(buffer) THEN x
    ELSE max_by_keep_first_from(buffer,
                                IF compare_confidence(buffer[x], buffer[i]) = "Less" THEN i ELSE x,
                                i + 1)

\* a variant of max_by that keeps the earlier of two equal frames
max_by_keep_first(buffer) ==
    IF buffer = <<>> THEN 0 ELSE max_by_keep_first_from(buffer, 1, 2)

\* position of the frame buffer.iter().max_by(..) returns; 0 stands for None
max_by(buffer) == IF buffer = <<>> THEN 0 ELSE max_by_from(buffer, 1, 2)

\* a variant of overtone_partials that numbers the overtones from 1
overtone_partials_from_one(parts) == [i \in 1..Len(parts) |-> Partial(i, parts[i])]

\* the overtone partials: enumerate().map(|(i, &freq)| Partial { number: i + 2, .. })
overtone_partials(parts) == [i \in 1..Len(parts) |-> Partial(i + 1, parts[i])]

process_best_confidence(buffer) ==
    LET best == max_by(buffer)
    IN  IF best = 0 THEN None
        ELSE LET best_frame == buffer[best]
             IN  IF IsSome(best_frame.note_name) /\ IsSome(best_frame.detected_frequency)
                 THEN LET key_index == get_key_index_from_name(Unwrap(best_frame.note_name))
                          all_partials ==
                              <<Partial(1, Unwrap(best_frame.detected_frequency))>>
                                  \o overtone_partials(best_frame.partials)
                      IN  Some(KeyMeasurement(key_index, all_partials,
                                              calculate_b_value(all_partials)))
                 ELSE None

ProcessingOperation == {"BestConfidence", "Average"}

\* the Option<KeyMeasurement> that process() returns
process(buffer, operation) ==
    IF operation = "BestConfidence" THEN process_best_confidence(buffer)
    ELSE None

\* what process() and process_best_confidence() print on stderr
process_stderr(buffer, operation) ==
    IF operation = "Average" THEN "Average processing not yet implemented"
    ELSE IF max_by(buffer) = 0 THEN "Process failed: No best frame found in buffer."
    ELSE IF IsSome(process_best_confidence(buffer)) THEN "Processed measurement"
    ELSE "Process failed: Best frame had no stable note data."


(***************************************************************************)
(* main.rs: the capture state machine of TunerApp.                         *)
(***************************************************************************)
VARIABLES
    capture_state,          \* display_data.capture_state
    stability_buffer,       \* TunerApp.stability_buffer
    inharmonicity_profile,  \* inharmonicity_profile.measurements: key -> KeyMeasurement
    analysis_channel,       \* results sent by the audio worker, not yet received
    frames_sent,            \* number of results the worker has sent
    pc,                     \* "idle" between two update() calls, "tick" inside Message::Tick
    results,                \* Tick: the results collected by try_recv, not yet processed
    \* history of the capture in progress, written but never read by the handlers
    entry_buffer,           \* stability_buffer when Capturing was last entered
    fed,                    \* results processed in Capturing since that entry
    done_count,             \* Capturing -> Done transitions since that entry
    process_calls,          \* buffers handed to capture_processing::process since that entry
    commit_count,           \* measurements inserted into the profile since that entry
    skipped,                \* results processed in another state than Capturing since that entry
    done_this_tick,         \* Done was entered during the current Tick
    \* a direct call of capture_processing::process
    p_buffer, p_operation, p_returned, p_result, p_stderr,
    \* a direct call of KeyMeasurement::calculate_b_value
    b_partials,             \* self.partials
    b_calculated_b,         \* self.calculated_b
    b_prior,                \* self.calculated_b before the call
    b_returned,             \* the call has returned
    b_result,               \* the Option<f32> it returned
    \* a direct call of find_nearest_note_by_index, then of get_key_index_from_name
    n_key,                  \* key_index handed to find_nearest_note_by_index
    n_name,                 \* the name it returned, handed to get_key_index_from_name
    n_index,                \* the index get_key_index_from_name returned
    n_step,                 \* number of calls made: 0, 1 or 2
    \* a direct call of find_partials
    fp_shape,               \* the levels of harmonics 1..5 in spectrum_magnitudes
    fp_fundamental_freq,    \* fundamental_freq
    fp_max_partials,        \* max_partials
    fp_returned,            \* the call has returned
    fp_result,              \* the Vec<f32> it returned
    \* direct calls of detect_pitch_yin and detect_pitch_pyin on one frame
    y_signal,               \* signal
    y_sample_rate,          \* sample_rate
    y_amplitude_threshold,  \* amplitude_threshold
    y_yin,                  \* what the call of detect_pitch_yin left
    y_pyin,                 \* what the call of detect_pitch_pyin left
    \* the audio thread, its capture stream and the Exit handler
    audio_buffer,           \* the accumulation buffer of the capture callback
    samples_in,             \* number of samples the device has delivered
    raw_audio_channel,      \* frames sent by the callback, not yet received
    worker,                 \* "loop" in the worker loop, "stopping" after break, "exited"
    stream,                 \* "playing", or "dropped" once the worker has dropped it
    shutdown_channel,       \* the bounded(1) shutdown channel
    exit_pc,                \* Message::Exit: "running", "signalled", "dropped", "exited"
    w_log,                  \* history: frames the worker received, with their analysis
    w_offered,              \* history: results the worker handed to analysis_tx.send
    \* the profile on disk and the Save/Load handlers
    profile_file,           \* contents of tuning_profile.json, None when there is no file
    main_stderr,            \* the last line SaveProfile or LoadProfile printed
    io_count                \* number of SaveProfile and LoadProfile messages handled

machineVars == <<capture_state, stability_buffer, inharmonicity_profile>>
channelVars == <<analysis_channel, frames_sent>>
tickVars    == <<pc, results>>
historyVars == <<entry_buffer, fed, done_count, process_calls, commit_count, skipped,
                 done_this_tick>>
processVars == <<p_buffer, p_operation, p_returned, p_result, p_stderr>>
bVars == <<b_partials, b_calculated_b, b_prior, b_returned, b_result>>
\* the state of the GUI, and the state of the direct calls of library functions
appVars == <<machineVars, channelVars, tickVars, historyVars>>
noteVars == <<n_key, n_name, n_index, n_step>>
partialsVars == <<fp_shape, fp_fundamental_freq, fp_max_partials, fp_returned, fp_result>>
yinVars == <<y_signal, y_sample_rate, y_amplitude_threshold, y_yin, y_pyin>>
callVars == <<processVars, bVars, noteVars, partialsVars, yinVars>>
audioVars == <<audio_buffer, samples_in, raw_audio_channel, worker, stream,
               shutdown_channel, exit_pc, w_log, w_offered>>
ioVars == <<profile_file, main_stderr, io_count>>
vars == <<appVars, callVars, audioVars, ioVars>>

CaptureState == {"Off", "Armed", "Capturing", "Done"}

\* What the signal processing finds in one frame of BUFFER_SIZE samples: the
\* return value of detect_pitch_pyin (None, or the rough frequency and the
\* confidence 1.0 - lowest_yin_val, which the clarity check keeps at 0.9 or
\* above) and the magnitude spectrum of the frame.
FrameAnalysis(pyin, spectrum) == [pyin |-> pyin, spectrum |-> spectrum]

\* The frames of the model: a tone of D4 with two overtones; the same note
\* with another confidence, no overtone, and a fundamental peak that cannot
\* be interpolated; a tone of D#4; a tone of D4 whose confidence is exactly
\* the threshold and whose 2nd harmonic is below the partial threshold; and
\* silence.
FrameAnalyses ==
    { FrameAnalysis(Some(<<302, 95>>),
                    SpectrumOf(<<"loud", "strong", "strong", "absent", "absent">>)),
      FrameAnalysis(Some(<<298, 97>>),
                    SpectrumOf(<<"loud_alone", "absent", "absent", "absent", "absent">>)),
      FrameAnalysis(Some(<<315, 95>>),
                    SpectrumOf(<<"loud_sharp", "strong", "absent", "absent", "absent">>)),
      FrameAnalysis(Some(<<302, 90>>),
                    SpectrumOf(<<"loud", "weak", "strong", "absent", "absent">>)),
      FrameAnalysis(None, SilentSpectrum) }

\* a variant of perform_analysis whose refinement has no fallback
perform_analysis_no_fallback(analysis, sample_rate) ==
    LET spectrogram_data == analysis.spectrum
        pyin == analysis.pyin
        detected_frequency ==
            IF IsSome(pyin)
            THEN refine_from_spectrum_no_fallback(spectrogram_data, Unwrap(pyin)[1],
                                                  sample_rate)
            ELSE None
        confidence == IF IsSome(pyin) THEN Some(Unwrap(pyin)[2]) ELSE None
        note == find_nearest_note(Unwrap(detected_frequency))
    IN  AnalysisResult(
            detected_frequency,
            confidence,
            IF IsSome(detected_frequency)
            THEN Some(calculate_cents_deviation(Unwrap(detected_frequency),
                                                NoteFrequency(note)))
            ELSE None,
            IF IsSome(detected_frequency) THEN Some(NoteName(note)) ELSE None,
            spectrogram_data,
            IF IsSome(detected_frequency)
            THEN find_partials(spectrogram_data, Unwrap(detected_frequency), sample_rate, 7)
            ELSE <<>>)

\* perform_analysis(audio_frame, sample_rate) after perform_fft: analysis
\* holds what detect_pitch_pyin and spectrum_to_magnitudes give for the frame
perform_analysis(analysis, sample_rate) ==
    LET spectrogram_data == analysis.spectrum
        pyin == analysis.pyin
        detected_frequency ==
            IF IsSome(pyin)
            THEN refine_from_spectrum(spectrogram_data, Unwrap(pyin)[1], sample_rate)
            ELSE None
        confidence == IF IsSome(pyin) THEN Some(Unwrap(pyin)[2]) ELSE None
        note == find_nearest_note(Unwrap(detected_frequency))
    IN  AnalysisResult(
            detected_frequency,
            confidence,
            IF IsSome(detected_frequency)
            THEN Some(calculate_cents_deviation(Unwrap(detected_frequency),
                                                NoteFrequency(note)))
            ELSE None,
            IF IsSome(detected_frequency) THEN Some(NoteName(note)) ELSE None,
            spectrogram_data,
            IF IsSome(detected_frequency)
            THEN find_partials(spectrogram_data, Unwrap(detected_frequency), sample_rate, 7)
            ELSE <<>>)

\* the results the audio worker sends for the frames of the model
WorkerResults == {perform_analysis(analysis, SAMPLE_RATE) : analysis \in FrameAnalyses}

\* a variant of check_stability that accepts a confidence equal to the threshold
check_stability_at_threshold(buffer) ==
    IF buffer = <<>> THEN FALSE
    ELSE IF ~IsSome(buffer[1].note_name) THEN FALSE
    ELSE \A i \in 1..Len(buffer) :
            /\ IsSome(buffer[i].confidence)
            /\ Unwrap(buffer[i].confidence) >= STABILITY_CONFIDENCE_THRESHOLD
            /\ buffer[i].note_name = buffer[1].note_name

\* check_stability(&self.stability_buffer)
check_stability(buffer) ==
    IF buffer = <<>> THEN FALSE
    ELSE IF ~IsSome(buffer[1].note_name) THEN FALSE
    ELSE LET first_note == Unwrap(buffer[1].note_name)
         IN  \A i \in 1..Len(buffer) :
                LET frame == buffer[i]
                    high_confidence ==
                        /\ IsSome(frame.confidence)
                        /\ Unwrap(frame.confidence) > STABILITY_CONFIDENCE_THRESHOLD
                    matching_note ==
                        /\ IsSome(frame.note_name)
                        /\ Unwrap(frame.note_name) = first_note
                IN  high_confidence /\ matching_note

\* a variant of push_back_bounded that evicts as soon as the length reaches
\* STABILITY_TARGET
push_back_bounded_early_pop(buffer, result) ==
    LET pushed == Append(buffer, result)
    IN  IF Len(pushed) >= STABILITY_TARGET THEN Tail(pushed) ELSE pushed

\* a variant of push_back_bounded that evicts the newest frame (pop_back)
push_back_bounded_pop_back(buffer, result) ==
    LET pushed == Append(buffer, result)
    IN  IF Len(pushed) > STABILITY_TARGET THEN SubSeq(pushed, 1, Len(pushed) - 1) ELSE pushed

\* push_back(result), then pop_front() when the length exceeds STABILITY_TARGET
push_back_bounded(buffer, result) ==
    LET pushed == Append(buffer, result)
    IN  IF Len(pushed) > STABILITY_TARGET THEN Tail(pushed) ELSE pushed

\* a variant of insert that files the measurement under the next free slot,
\* as a Vec::push would
insert_at_next_slot(measurements, key, measurement) ==
    [k \in (DOMAIN measurements) \cup {Cardinality(DOMAIN measurements)} |->
        IF k = Cardinality(DOMAIN measurements) THEN measurement ELSE measurements[k]]

\* BTreeMap::insert(measurement.key_index, measurement)
insert(measurements, key, measurement) ==
    [k \in (DOMAIN measurements) \cup {key} |->
        IF k = key THEN measurement ELSE measurements[k]]

\* TunerApp::process_analysis_result, its capture logic
process_analysis_result(result) ==
    IF capture_state = "Capturing"
    THEN LET window == push_back_bounded(stability_buffer, result)
         IN  /\ fed' = Append(fed, result)
             /\ UNCHANGED skipped
             /\ IF Len(window) = STABILITY_TARGET /\ check_stability(window)
                THEN LET measurement == process(window, "BestConfidence")
                     IN  /\ capture_state' = "Done"
                         /\ stability_buffer' = <<>>
                         /\ inharmonicity_profile' =
                               IF IsSome(measurement)
                               THEN insert(inharmonicity_profile,
                                           Unwrap(measurement).key_index,
                                           Unwrap(measurement))
                               ELSE inharmonicity_profile
                         /\ done_count' = done_count + 1
                         /\ process_calls' = Append(process_calls, window)
                         /\ commit_count' =
                               IF IsSome(measurement) THEN commit_count + 1 ELSE commit_count
                         /\ done_this_tick' = TRUE
                ELSE /\ stability_buffer' = window
                     /\ UNCHANGED <<capture_state, inharmonicity_profile, done_count,
                                    process_calls, commit_count, done_this_tick>>
    ELSE /\ skipped' = skipped + 1
         /\ UNCHANGED <<machineVars, fed, done_count, process_calls, commit_count,
                        done_this_tick>>

\* the audio worker: analysis_tx.send(result) for one analysed frame
WorkerSend ==
    /\ frames_sent < MaxFrames
    /\ \E result \in WorkerResults :
          analysis_channel' = Append(analysis_channel, result)
    /\ frames_sent' = frames_sent + 1
    /\ UNCHANGED <<machineVars, tickVars, historyVars, callVars, audioVars, ioVars>>

\* a variant of ToggleMeasurementMode whose Capturing arm does not clear the buffer
ToggleMeasurementMode_NoClear ==
    /\ pc = "idle"
    /\ \/ /\ capture_state = "Off"
          /\ capture_state' = "Armed"
          /\ UNCHANGED stability_buffer
       \/ /\ capture_state = "Armed"
          /\ stability_buffer' = <<>>
          /\ capture_state' = "Off"
       \/ /\ capture_state \in {"Capturing", "Done"}
          /\ capture_state' = "Off"
          /\ UNCHANGED stability_buffer
    /\ UNCHANGED <<inharmonicity_profile, channelVars, tickVars, historyVars, callVars, audioVars, ioVars>>

\* a variant of ToggleMeasurementMode that discards the profile when
\* measurement mode is left
ToggleMeasurementMode_ResetsProfile ==
    /\ pc = "idle"
    /\ \/ /\ capture_state = "Off"
          /\ capture_state' = "Armed"
          /\ UNCHANGED <<stability_buffer, inharmonicity_profile>>
       \/ /\ capture_state \in {"Armed", "Capturing"}
          /\ stability_buffer' = <<>>
          /\ inharmonicity_profile' = <<>>
          /\ capture_state' = "Off"
       \/ /\ capture_state = "Done"
          /\ capture_state' = "Off"
          /\ UNCHANGED <<stability_buffer, inharmonicity_profile>>
    /\ UNCHANGED <<channelVars, tickVars, historyVars, callVars, audioVars, ioVars>>

\* Message::ToggleMeasurementMode
ToggleMeasurementMode ==
    /\ pc = "idle"
    /\ \/ /\ capture_state = "Off"
          /\ capture_state' = "Armed"
          /\ UNCHANGED stability_buffer
       \/ /\ capture_state \in {"Armed", "Capturing"}
          /\ stability_buffer' = <<>>
          /\ capture_state' = "Off"
       \/ /\ capture_state = "Done"
          /\ capture_state' = "Off"
          /\ UNCHANGED stability_buffer
    /\ UNCHANGED <<inharmonicity_profile, channelVars, tickVars, historyVars, callVars, audioVars, ioVars>>

\* Message::CaptureButtonClicked
CaptureButtonClicked ==
    /\ pc = "idle"
    /\ \/ /\ capture_state = "Armed"
          /\ capture_state' = "Capturing"
          /\ entry_buffer' = stability_buffer
          /\ fed' = <<>>
          /\ done_count' = 0
          /\ process_calls' = <<>>
          /\ commit_count' = 0
          /\ skipped' = 0
          /\ UNCHANGED done_this_tick
       \/ /\ capture_state = "Capturing"
          /\ capture_state' = "Armed"
          /\ UNCHANGED historyVars
       \/ /\ capture_state = "Done"
          /\ capture_state' = "Off"
          /\ UNCHANGED historyVars
       \/ /\ capture_state = "Off"
          /\ UNCHANGED <<capture_state, historyVars>>
    /\ UNCHANGED <<stability_buffer, inharmonicity_profile, channelVars, tickVars,
                   callVars, audioVars, ioVars>>

\* Message::Tick, the try_recv loop: collect everything the channel holds
TickCollect ==
    /\ pc = "idle"
    /\ pc' = "tick"
    /\ results' = analysis_channel
    /\ analysis_channel' = <<>>
    /\ done_this_tick' = FALSE
    /\ UNCHANGED <<machineVars, frames_sent, entry_buffer, fed, done_count,
                   process_calls, commit_count, skipped, callVars, audioVars, ioVars>>

\* Message::Tick, one turn of the loop over the collected results
TickProcess ==
    /\ pc = "tick"
    /\ results # <<>>
    /\ process_analysis_result(Head(results))
    /\ results' = Tail(results)
    /\ UNCHANGED <<pc, channelVars, entry_buffer, callVars, audioVars, ioVars>>

\* a variant of TickReset that leaves Done in place
TickReset_KeepsDone ==
    /\ pc = "tick"
    /\ results = <<>>
    /\ pc' = "idle"
    /\ UNCHANGED <<machineVars, channelVars, results, historyVars, callVars, audioVars, ioVars>>

\* a variant of TickReset that restarts the capture instead of re-arming
TickReset_ToCapturing ==
    /\ pc = "tick"
    /\ results = <<>>
    /\ capture_state' = IF capture_state = "Done" THEN "Capturing" ELSE capture_state
    /\ pc' = "idle"
    /\ UNCHANGED <<stability_buffer, inharmonicity_profile, channelVars, results,
                   historyVars, callVars, audioVars, ioVars>>

\* Message::Tick, after the loop: the reset of Done to Armed
TickReset ==
    /\ pc = "tick"
    /\ results = <<>>
    /\ capture_state' = IF capture_state = "Done" THEN "Armed" ELSE capture_state
    /\ pc' = "idle"
    /\ UNCHANGED <<stability_buffer, inharmonicity_profile, channelVars, results,
                   historyVars, callVars, audioVars, ioVars>>

\* TunerApp::default()
MachineInit ==
    /\ capture_state = "Off"
    /\ stability_buffer = <<>>
    /\ inharmonicity_profile = <<>>
    /\ analysis_channel = <<>>
    /\ frames_sent = 0
    /\ pc = "idle"
    /\ results = <<>>
    /\ entry_buffer = <<>>
    /\ fed = <<>>
    /\ done_count = 0
    /\ process_calls = <<>>
    /\ commit_count = 0
    /\ skipped = 0
    /\ done_this_tick = FALSE

\* no call of process() in progress
ProcessIdle ==
    /\ p_buffer = <<>>
    /\ p_operation = "BestConfidence"
    /\ p_returned = FALSE
    /\ p_result = None
    /\ p_stderr = ""

\* no call of calculate_b_value() in progress
BIdle ==
    /\ b_partials = <<>>
    /\ b_calculated_b = None
    /\ b_prior = None
    /\ b_returned = FALSE
    /\ b_result = None

\* no call of the note functions in progress
NoteIdle ==
    /\ n_key = 0
    /\ n_name = ""
    /\ n_index = 0
    /\ n_step = 0

\* no call of find_partials() in progress
PartialsIdle ==
    /\ fp_shape = <<>>
    /\ fp_fundamental_freq = 0
    /\ fp_max_partials = 0
    /\ fp_returned = FALSE
    /\ fp_result = <<>>

\* no call of the detectors in progress
YinIdle ==
    /\ y_signal = <<>>
    /\ y_sample_rate = 0
    /\ y_amplitude_threshold = 0
    /\ y_yin = NotCalled
    /\ y_pyin = NotCalled

\* start_audio_processing: the audio thread is in its loop, the stream plays,
\* nothing has been captured yet
AudioInit ==
    /\ audio_buffer = <<>>
    /\ samples_in = 0
    /\ raw_audio_channel = <<>>
    /\ worker = "loop"
    /\ stream = "playing"
    /\ shutdown_channel = <<>>
    /\ exit_pc = "running"
    /\ w_log = <<>>
    /\ w_offered = <<>>

\* no tuning_profile.json on disk, no SaveProfile or LoadProfile handled
IoIdle ==
    /\ profile_file = None
    /\ main_stderr = ""
    /\ io_count = 0

Init ==
    /\ MachineInit
    /\ ProcessIdle
    /\ BIdle
    /\ NoteIdle
    /\ PartialsIdle
    /\ YinIdle
    /\ AudioInit
    /\ IoIdle

Next ==
    \/ WorkerSend
    \/ ToggleMeasurementMode
    \/ CaptureButtonClicked
    \/ TickCollect
    \/ TickProcess
    \/ TickReset

Spec == Init /\ [][Next]_vars


(***************************************************************************)
(* capture_processing::process called directly, on every buffer of at most *)
(* MaxLen frames and with either operation.                                *)
(***************************************************************************)
\* The frames of the worker, and three frames a caller of the library can
\* build: a note with no confidence, a note with confidence 0.0, and a
\* confidence with neither note nor frequency.
ProcessFrames ==
    WorkerResults \cup
    { AnalysisResult(Some(62), None, Some(7), Some("B1"), <<>>, <<>>),
      AnalysisResult(Some(65), Some(0), Some(-10), Some("C2"), <<>>, <<131>>),
      AnalysisResult(None, Some(95), None, None, <<>>, <<>>) }

ProcessBuffers == UNION {[1..n -> ProcessFrames] : n \in 0..MaxLen}

ProcessInit ==
    /\ MachineInit
    /\ p_buffer \in ProcessBuffers
    /\ p_operation \in ProcessingOperation
    /\ p_returned = FALSE
    /\ p_result = None
    /\ p_stderr = ""
    /\ BIdle
    /\ NoteIdle
    /\ PartialsIdle
    /\ YinIdle
    /\ AudioInit
    /\ IoIdle

\* process(buffer, operation)
CallProcess ==
    /\ ~p_returned
    /\ p_result' = process(p_buffer, p_operation)
    /\ p_stderr' = process_stderr(p_buffer, p_operation)
    /\ p_returned' = TRUE
    /\ UNCHANGED <<appVars, p_buffer, p_operation, bVars, noteVars, partialsVars, yinVars, audioVars, ioVars>>

ProcessNext == CallProcess

SpecProcess == ProcessInit /\ [][ProcessNext]_vars


(***************************************************************************)
(* KeyMeasurement::calculate_b_value called directly, on every list of at  *)
(* most MaxPartials partials.                                              *)
(***************************************************************************)
\* Partial numbers (u32) and frequencies (f32, whole Hz) of the lists: the
\* invalid number 0 and the invalid frequency 0, the harmonic series of
\* 43 Hz (43, 86, 129), and the series 43, 94, 159, whose points
\* (n^2, (f_n/n)^2) = (1, 1849), (4, 2209), (9, 2809) lie on the line
\* y = 1729 + 120 x, that is f0^2 = 1729 and B = 120/1729.
PartialNumbers == 0..3
PartialFrequencies == {0, 43, 86, 94, 129, 159}

PartialLists ==
    UNION {[1..n -> [number : PartialNumbers, frequency : PartialFrequencies]] :
              n \in 0..MaxPartials}

\* calculated_b of the measurement before the call: None, or the value an
\* earlier call stored
PriorB == {None, Some(Ratio(1, 1000))}

BInit ==
    /\ MachineInit
    /\ ProcessIdle
    /\ NoteIdle
    /\ PartialsIdle
    /\ YinIdle
    /\ AudioInit
    /\ IoIdle
    /\ b_partials \in PartialLists
    /\ b_prior \in PriorB
    /\ b_calculated_b = b_prior
    /\ b_returned = FALSE
    /\ b_result = None

\* measurement.calculate_b_value(): self.calculated_b is assigned only on
\* the path that returns a value
CallCalculateB ==
    /\ ~b_returned
    /\ LET b == calculate_b_value(b_partials)
       IN  /\ b_result' = b
           /\ b_calculated_b' = IF IsSome(b) THEN b ELSE b_calculated_b
    /\ b_returned' = TRUE
    /\ UNCHANGED <<appVars, processVars, noteVars, partialsVars, yinVars, audioVars, ioVars, b_partials, b_prior>>

BNext == CallCalculateB

SpecB == BInit /\ [][BNext]_vars


(***************************************************************************)
(* tuning.rs: find_nearest_note_by_index called on every key of the piano, *)
(* and get_key_index_from_name called on the name it returns.              *)
(***************************************************************************)
NoteInit ==
    /\ MachineInit
    /\ ProcessIdle
    /\ BIdle
    /\ PartialsIdle
    /\ YinIdle
    /\ AudioInit
    /\ IoIdle
    /\ n_key \in KeyIndexes
    /\ n_name = ""
    /\ n_index = 0
    /\ n_step = 0

\* find_nearest_note_by_index(key_index).0, the name of NOTES[key_index]
CallNameOfKey ==
    /\ n_step = 0
    /\ n_name' = NoteName(n_key)
    /\ n_step' = 1
    /\ UNCHANGED <<appVars, processVars, bVars, partialsVars, yinVars, audioVars, ioVars, n_key, n_index>>

\* get_key_index_from_name(&name)
CallIndexOfName ==
    /\ n_step = 1
    /\ n_index' = get_key_index_from_name(n_name)
    /\ n_step' = 2
    /\ UNCHANGED <<appVars, processVars, bVars, partialsVars, yinVars, audioVars, ioVars, n_key, n_name>>

NoteNext == CallNameOfKey \/ CallIndexOfName

SpecNote == NoteInit /\ [][NoteNext]_vars


(***************************************************************************)
(* audio.rs and main.rs: the capture callback, the audio worker and the    *)
(* GUI that drains the results, with the Exit handler that stops them.     *)
(* Samples are numbered 1, 2, 3, ... in the order the device delivers      *)
(* them.                                                                   *)
(***************************************************************************)
\* a variant of callback_loop with an `if` in place of the `while`: at most
\* one frame is sent per callback
callback_loop_once(buffer, sent) ==
    IF Len(buffer) >= BUFFER_SIZE
    THEN <<SubSeq(buffer, BUFFER_SIZE + 1, Len(buffer)),
           Append(sent, SubSeq(buffer, 1, BUFFER_SIZE))>>
    ELSE <<buffer, sent>>

RECURSIVE callback_loop(_, _)
\* while audio_buffer.len() >= BUFFER_SIZE { try_send(frame); drain(..BUFFER_SIZE) }:
\* the buffer left and the frames sent.  The sender is the unbounded channel
\* of main.rs:223, whose try_send never finds the channel full.
callback_loop(buffer, sent) ==
    IF Len(buffer) >= BUFFER_SIZE
    THEN callback_loop(SubSeq(buffer, BUFFER_SIZE + 1, Len(buffer)),
                       Append(sent, SubSeq(buffer, 1, BUFFER_SIZE)))
    ELSE <<buffer, sent>>

\* the input callback of the stream, called with a chunk of n samples
AudioCallback ==
    /\ stream = "playing"
    /\ exit_pc # "exited"
    /\ \E n \in 1..MaxChunk :
          /\ samples_in + n <= MaxSamples
          /\ LET data == [i \in 1..n |-> samples_in + i]
                 after == callback_loop(audio_buffer \o data, <<>>)
             IN  /\ audio_buffer' = after[1]
                 /\ raw_audio_channel' = raw_audio_channel \o after[2]
          /\ samples_in' = samples_in + n
    /\ UNCHANGED <<appVars, callVars, ioVars, worker, stream, shutdown_channel, exit_pc,
                   w_log, w_offered>>

\* the result built when the analysis panicked
FallbackResult == AnalysisResult(None, None, None, None, <<>>, <<>>)

\* catch_unwind(|| perform_analysis(&audio_frame, sample_rate)): perform_fft
\* panics on a frame whose length is not BUFFER_SIZE; fault stands for any
\* other panic raised inside the analysis
catch_unwind_perform_analysis(audio_frame, analysis, fault) ==
    IF fault \/ Len(audio_frame) # BUFFER_SIZE THEN FallbackResult
    ELSE perform_analysis(analysis, SAMPLE_RATE)

\* a variant of WorkerRecvFrame that sends nothing for a frame whose analysis panicked
WorkerRecvFrame_DropsPanicked ==
    /\ worker = "loop"
    /\ exit_pc # "exited"
    /\ raw_audio_channel # <<>>
    /\ \E analysis \in FrameAnalyses, fault \in BOOLEAN :
          LET audio_frame == Head(raw_audio_channel)
              result == catch_unwind_perform_analysis(audio_frame, analysis, fault)
          IN  /\ w_log' = Append(w_log, [frame |-> audio_frame, analysis |-> analysis,
                                         fault |-> fault])
              /\ IF fault
                 THEN UNCHANGED <<w_offered, analysis_channel, frames_sent, worker>>
                 ELSE /\ w_offered' = Append(w_offered, result)
                      /\ IF exit_pc = "dropped"
                         THEN /\ worker' = "stopping"
                              /\ UNCHANGED <<analysis_channel, frames_sent>>
                         ELSE /\ analysis_channel' = Append(analysis_channel, result)
                              /\ frames_sent' = frames_sent + 1
                              /\ UNCHANGED worker
    /\ raw_audio_channel' = Tail(raw_audio_channel)
    /\ UNCHANGED <<machineVars, tickVars, historyVars, callVars, ioVars, audio_buffer,
                   samples_in, stream, shutdown_channel, exit_pc>>

\* the worker loop, recv(raw_audio_rx) arm: analyse the frame and send the
\* result; a send that fails (the receiver is dropped) breaks the loop
WorkerRecvFrame ==
    /\ worker = "loop"
    /\ exit_pc # "exited"
    /\ raw_audio_channel # <<>>
    /\ \E analysis \in FrameAnalyses, fault \in BOOLEAN :
          LET audio_frame == Head(raw_audio_channel)
              result == catch_unwind_perform_analysis(audio_frame, analysis, fault)
          IN  /\ w_log' = Append(w_log, [frame |-> audio_frame, analysis |-> analysis,
                                         fault |-> fault])
              /\ w_offered' = Append(w_offered, result)
              /\ IF exit_pc = "dropped"
                 THEN /\ worker' = "stopping"
                      /\ UNCHANGED <<analysis_channel, frames_sent>>
                 ELSE /\ analysis_channel' = Append(analysis_channel, result)
                      /\ frames_sent' = frames_sent + 1
                      /\ UNCHANGED worker
    /\ raw_audio_channel' = Tail(raw_audio_channel)
    /\ UNCHANGED <<machineVars, tickVars, historyVars, callVars, ioVars, audio_buffer,
                   samples_in, stream, shutdown_channel, exit_pc>>

\* the worker loop, recv(shutdown_rx) arm
WorkerRecvShutdown ==
    /\ worker = "loop"
    /\ exit_pc # "exited"
    /\ shutdown_channel # <<>>
    /\ shutdown_channel' = Tail(shutdown_channel)
    /\ worker' = "stopping"
    /\ UNCHANGED <<appVars, callVars, ioVars, audio_buffer, samples_in, raw_audio_channel,
                   stream, exit_pc, w_log, w_offered>>

\* after the loop: stream.pause(), drop(stream), the thread ends
WorkerStop ==
    /\ worker = "stopping"
    /\ exit_pc # "exited"
    /\ stream' = "dropped"
    /\ worker' = "exited"
    /\ UNCHANGED <<appVars, callVars, ioVars, audio_buffer, samples_in, raw_audio_channel,
                   shutdown_channel, exit_pc, w_log, w_offered>>

\* Message::Exit: worker.shutdown_tx.send(()), then the 100 ms sleep
ExitSignal ==
    /\ pc = "idle"
    /\ exit_pc = "running"
    /\ shutdown_channel' = Append(shutdown_channel, "shutdown")
    /\ exit_pc' = "signalled"
    /\ UNCHANGED <<appVars, callVars, ioVars, audio_buffer, samples_in, raw_audio_channel,
                   worker, stream, w_log, w_offered>>

\* Message::Exit: self.analysis_receiver = None drops what the channel holds
ExitDropReceiver ==
    /\ exit_pc = "signalled"
    /\ analysis_channel' = <<>>
    /\ exit_pc' = "dropped"
    /\ UNCHANGED <<machineVars, frames_sent, tickVars, historyVars, callVars, ioVars,
                   audio_buffer, samples_in, raw_audio_channel, worker, stream,
                   shutdown_channel, w_log, w_offered>>

\* Message::Exit: std::process::exit(0) ends every thread
ExitProcess ==
    /\ exit_pc = "dropped"
    /\ exit_pc' = "exited"
    /\ UNCHANGED <<appVars, callVars, ioVars, audio_buffer, samples_in, raw_audio_channel,
                   worker, stream, shutdown_channel, w_log, w_offered>>

\* Message::Tick while no Exit is being handled
AudioTickCollect == exit_pc = "running" /\ TickCollect
AudioTickProcess == exit_pc = "running" /\ TickProcess
AudioTickReset == exit_pc = "running" /\ TickReset

AudioNext ==
    \/ AudioCallback
    \/ WorkerRecvFrame
    \/ WorkerRecvShutdown
    \/ WorkerStop
    \/ ExitSignal
    \/ ExitDropReceiver
    \/ ExitProcess
    \/ AudioTickCollect
    \/ AudioTickProcess
    \/ AudioTickReset

SpecAudio == Init /\ [][AudioNext]_vars

\* SpecAudio with the scheduling the code relies on: crossbeam's select!
\* picks at random among the ready operations, so an arm that stays ready is
\* eventually taken; the audio thread runs on after its loop; and the GUI
\* thread, once inside the Exit handler, runs it to its end.  Nothing is
\* assumed about the device's callbacks, the user's messages or the Tick.
SpecAudioFair ==
    /\ SpecAudio
    /\ WF_vars(WorkerRecvFrame)
    /\ WF_vars(WorkerRecvShutdown)
    /\ WF_vars(WorkerStop)
    /\ WF_vars(ExitDropReceiver)
    /\ WF_vars(ExitProcess)


(***************************************************************************)
(* Message::SaveProfile and Message::LoadProfile, added to the messages of *)
(* the capture machine.  tuning_profile.json is absent, cut short by a     *)
(* failed write, or holds the JSON text of a profile.                      *)
(***************************************************************************)
\* the keys of a BTreeMap in iteration order
SortedKeys(S) ==
    CHOOSE s \in [1..Cardinality(S) -> S] :
        \A i, j \in 1..Cardinality(S) : i < j => s[i] < s[j]

\* serde_json::to_string_pretty(profile): one member per key, named by the
\* key in decimal, in the order of the map
to_string_pretty(profile) ==
    LET keys == SortedKeys(DOMAIN profile)
    IN  [complete |-> TRUE,
         members |-> [i \in 1..Cardinality(DOMAIN profile) |->
                         <<ToString(keys[i]), profile[keys[i]]>>]]

\* what File::create followed by a failed write_all leaves: a text cut short
Truncated == [complete |-> FALSE, members |-> <<>>]

\* the u8 a member name stands for
parse_u8(s) == CHOOSE k \in 0..255 : ToString(k) = s

\* serde_json::from_str::<InharmonicityProfile>(data)
from_str(data) ==
    IF ~data.complete
    THEN [ok |-> FALSE, profile |-> <<>>]
    ELSE [ok |-> TRUE,
          profile |->
              [k \in {parse_u8(data.members[i][1]) : i \in 1..Len(data.members)} |->
                  LET i == CHOOSE i \in 1..Len(data.members) :
                               parse_u8(data.members[i][1]) = k
                  IN  data.members[i][2]]]

\* save_profile(profile, path): the Result and the file it leaves.  fault is
\* "none", "create" (File::create fails) or "write" (write_all fails)
save_profile(profile, file, fault) ==
    IF fault = "create" THEN [ok |-> FALSE, file |-> file]
    ELSE IF fault = "write" THEN [ok |-> FALSE, file |-> Some(Truncated)]
    ELSE [ok |-> TRUE, file |-> Some(to_string_pretty(profile))]

\* load_profile(path): File::open fails without a file, read_to_string can
\* fail, from_str fails on a text that is not a profile
load_profile(file, read_error) ==
    IF file = None \/ read_error
    THEN [ok |-> FALSE, profile |-> <<>>]
    ELSE from_str(Unwrap(file))

\* Message::SaveProfile
SaveProfile ==
    /\ pc = "idle"
    /\ io_count < MaxIo
    /\ \E fault \in {"none", "create", "write"} :
          LET saved == save_profile(inharmonicity_profile, profile_file, fault)
          IN  /\ profile_file' = saved.file
              /\ main_stderr' = IF saved.ok
                                THEN "[MAIN] Tuning profile saved successfully."
                                ELSE "[MAIN] Error saving profile"
    /\ io_count' = io_count + 1
    /\ UNCHANGED <<appVars, callVars, audioVars>>

\* a variant of LoadProfile that falls back to an empty profile on an error
LoadProfile_DefaultOnError ==
    /\ pc = "idle"
    /\ io_count < MaxIo
    /\ \E read_error \in BOOLEAN :
          LET loaded == load_profile(profile_file, read_error)
          IN  /\ inharmonicity_profile' = loaded.profile
              /\ main_stderr' = IF loaded.ok
                                THEN "[MAIN] Tuning profile loaded successfully."
                                ELSE "[MAIN] Error loading profile"
    /\ io_count' = io_count + 1
    /\ UNCHANGED <<capture_state, stability_buffer, channelVars, tickVars, historyVars,
                   callVars, audioVars, profile_file>>

\* Message::LoadProfile
LoadProfile ==
    /\ pc = "idle"
    /\ io_count < MaxIo
    /\ \E read_error \in BOOLEAN :
          LET loaded == load_profile(profile_file, read_error)
          IN  /\ inharmonicity_profile' =
                     IF loaded.ok THEN loaded.profile ELSE inharmonicity_profile
              /\ main_stderr' = IF loaded.ok
                                THEN "[MAIN] Tuning profile loaded successfully."
                                ELSE "[MAIN] Error loading profile"
    /\ io_count' = io_count + 1
    /\ UNCHANGED <<capture_state, stability_buffer, channelVars, tickVars, historyVars,
                   callVars, audioVars, profile_file>>

\* a profile saved by an earlier session: one measured key
EarlierProfile ==
    insert(<<>>, 48, KeyMeasurement(48, <<Partial(1, 440), Partial(2, 881)>>, None))

\* what the disk can hold when the program starts
InitialFiles == {None, Some(Truncated), Some(to_string_pretty(EarlierProfile))}

ProfileInit ==
    /\ MachineInit
    /\ ProcessIdle
    /\ BIdle
    /\ NoteIdle
    /\ PartialsIdle
    /\ YinIdle
    /\ AudioInit
    /\ profile_file \in InitialFiles
    /\ main_stderr = ""
    /\ io_count = 0

\* the frames the worker sends while profiles are saved and loaded: a string
\* that holds its pitch, and silence
ProfileFrames ==
    {result \in WorkerResults :
        /\ result.confidence \in {None, Some(95)}
        /\ result.detected_frequency \in {None, Some(300)}}

\* the audio worker: analysis_tx.send(result) for one analysed frame
ProfileWorkerSend ==
    /\ frames_sent < MaxFrames
    /\ \E result \in ProfileFrames :
          analysis_channel' = Append(analysis_channel, result)
    /\ frames_sent' = frames_sent + 1
    /\ UNCHANGED <<machineVars, tickVars, historyVars, callVars, audioVars, ioVars>>

ProfileNext ==
    \/ ProfileWorkerSend
    \/ ToggleMeasurementMode
    \/ CaptureButtonClicked
    \/ TickCollect
    \/ TickProcess
    \/ TickReset
    \/ SaveProfile
    \/ LoadProfile

SpecProfile == ProfileInit /\ [][ProfileNext]_vars


(***************************************************************************)
(* pitch::find_partials called directly, on the spectra of a tone of about *)
(* 300 Hz whose harmonics 2..5 are each absent, weak, strong, flat-topped  *)
(* or isolated.                                                            *)
(***************************************************************************)
FundamentalLevels == {"loud", "loud_sharp", "loud_alone"}
OvertoneLevels == {"absent", "weak", "strong", "strong_flat", "plateau", "isolated"}

Shapes ==
    {<<h1, h2, h3, h4, h5>> :
        h1 \in FundamentalLevels,
        h2 \in OvertoneLevels, h3 \in OvertoneLevels,
        h4 \in OvertoneLevels, h5 \in OvertoneLevels}

\* no pitch, the pitch of the tone, a pitch detected slightly sharp, and a
\* pitch beyond the spectrum
Fundamentals == {0, 300, 302, 1700}

\* max_partials: none, two, and the 7 perform_analysis asks for
PartialCounts == {0, 2, 7}

PartialsInit ==
    /\ MachineInit
    /\ ProcessIdle
    /\ BIdle
    /\ NoteIdle
    /\ AudioInit
    /\ IoIdle
    /\ YinIdle
    /\ fp_shape \in Shapes
    /\ fp_fundamental_freq \in Fundamentals
    /\ fp_max_partials \in PartialCounts
    /\ fp_returned = FALSE
    /\ fp_result = <<>>

CallFindPartials ==
    /\ ~fp_returned
    /\ fp_result' = find_partials(SpectrumOf(fp_shape), fp_fundamental_freq, SAMPLE_RATE,
                                  fp_max_partials)
    /\ fp_returned' = TRUE
    /\ UNCHANGED <<appVars, processVars, bVars, noteVars, yinVars, audioVars, ioVars,
                   fp_shape, fp_fundamental_freq, fp_max_partials>>

PartialsNext == CallFindPartials

SpecPartials == PartialsInit /\ [][PartialsNext]_vars


(***************************************************************************)
(* detect_pitch_yin and detect_pitch_pyin called directly, each once, on   *)
(* frames cut from periodic signals.                                       *)
(***************************************************************************)
SampleValues == {0, 1, 4, 5}

\* one period of a signal of period 3, 4 or 5
Patterns == [1..3 -> SampleValues] \cup [1..4 -> SampleValues] \cup [1..5 -> SampleValues]

\* the empty frame, one and three samples, and a frame of FrameSize samples
FrameLengths == {0, 1, 3, FrameSize}

\* the first len samples of the signal that repeats pattern
SignalOf(pattern, len) == [i \in 1..len |-> pattern[((i - 1) % Len(pattern)) + 1]]

\* no gate, a gate between the quiet and the loud signals, a gate above all
AmplitudeThresholds == {0, 2, 6}

\* a rate at which every period is audible, and one at which periods of 3
\* samples and more fall to 20 Hz and below
SampleRates == {3200, 60}

YinInit ==
    /\ MachineInit
    /\ ProcessIdle
    /\ BIdle
    /\ NoteIdle
    /\ PartialsIdle
    /\ AudioInit
    /\ IoIdle
    /\ \E pattern \in Patterns : \E len \in FrameLengths :
          y_signal = SignalOf(pattern, len)
    /\ y_sample_rate \in SampleRates
    /\ y_amplitude_threshold \in AmplitudeThresholds
    /\ y_yin = NotCalled
    /\ y_pyin = NotCalled

CallDetectPitchYin ==
    /\ ~y_yin.returned
    /\ y_yin' = detect_pitch_yin(y_signal, y_sample_rate, y_amplitude_threshold)
    /\ UNCHANGED <<appVars, processVars, bVars, noteVars, partialsVars, audioVars, ioVars,
                   y_signal, y_sample_rate, y_amplitude_threshold, y_pyin>>

CallDetectPitchPyin ==
    /\ ~y_pyin.returned
    /\ y_pyin' = detect_pitch_pyin(y_signal, y_sample_rate, y_amplitude_threshold)
    /\ UNCHANGED <<appVars, processVars, bVars, noteVars, partialsVars, audioVars, ioVars,
                   y_signal, y_sample_rate, y_amplitude_threshold, y_yin>>

YinNext ==
    \/ CallDetectPitchYin
    \/ CallDetectPitchPyin

SpecYin == YinInit /\ [][YinNext]_vars


(***************************************************************************)
(* Vocabulary of the properties, stated without the operators above.       *)
(***************************************************************************)
\* every frame of w names the note of the first frame and carries a
\* confidence strictly above the threshold
SteadyWindow(w) ==
    \A i \in 1..Len(w) :
        /\ w[i].note_name # <<>>
        /\ w[i].note_name = w[1].note_name
        /\ w[i].confidence # <<>>
        /\ w[i].confidence[1] > STABILITY_CONFIDENCE_THRESHOLD

\* the last n elements of s, all of s when it has fewer
LastN(s, n) == IF Len(s) <= n THEN s ELSE SubSeq(s, Len(s) - n + 1, Len(s))

\* the step that enters Capturing
EntersCapturing == capture_state = "Armed" /\ capture_state' = "Capturing"

\* the step that takes Capturing to Done
EntersDone == capture_state # "Done" /\ capture_state' = "Done"

\* confidence of a frame, an absent one counted as 0.0
ConfidenceOf(frame) == IF frame.confidence = <<>> THEN 0 ELSE frame.confidence[1]

\* positions of the frames of buffer that carry its greatest confidence
MaxPositions(buffer) ==
    {i \in 1..Len(buffer) :
        \A j \in 1..Len(buffer) : ConfidenceOf(buffer[j]) <= ConfidenceOf(buffer[i])}

FirstOf(S) == CHOOSE i \in S : \A j \in S : i <= j
LastOf(S) == CHOOSE i \in S : \A j \in S : j <= i

\* result is what process() returns when it builds from this frame: nothing
\* when the frame lacks the note name or the frequency, else a measurement
\* of the frame's key with the frame's fundamental and partials
BuiltFrom(result, frame) ==
    IF frame.note_name = <<>> \/ frame.detected_frequency = <<>>
    THEN result = <<>>
    ELSE /\ result # <<>>
         /\ NoteName(result[1].key_index) = frame.note_name[1]
         /\ Len(result[1].partials) = Len(frame.partials) + 1
         /\ result[1].partials[1].frequency = frame.detected_frequency[1]
         /\ \A i \in 1..Len(frame.partials) :
                result[1].partials[i + 1].frequency = frame.partials[i]

PairwiseDistinctConfidences(buffer) ==
    \A i, j \in 1..Len(buffer) :
        i # j => ConfidenceOf(buffer[i]) # ConfidenceOf(buffer[j])

(***************************************************************************)
(* Properties of the capture state machine, checked under Spec.            *)
(***************************************************************************)
\* C1: a capture that starts with an empty stability buffer and is fed
\* STABILITY_TARGET results in a row, all naming the same note with a
\* confidence above the threshold, has reached Done exactly once and has
\* called process() exactly once, with exactly those STABILITY_TARGET frames.
C1_SteadyRunCapturesOnce ==
    (entry_buffer = <<>> /\ Len(fed) = STABILITY_TARGET /\ SteadyWindow(fed))
        => /\ done_count = 1
           /\ Len(process_calls) = 1
           /\ Len(process_calls[1]) = STABILITY_TARGET
           /\ process_calls[1] = fed

C1_Witness ==
    /\ entry_buffer = <<>>
    /\ Len(fed) = STABILITY_TARGET
    /\ SteadyWindow(fed)
    /\ capture_state = "Done"
    /\ done_count = 1

\* C2: the state becomes Done only in the processing of a result in state
\* Capturing, and only when the buffer with that result pushed (the oldest
\* frame evicted beyond STABILITY_TARGET) holds exactly STABILITY_TARGET
\* frames that all have the first frame's note name and a confidence
\* strictly above the threshold; that window is what process() receives.
C2_DoneOnlyOnSteadyFullWindow ==
    [][EntersDone =>
        /\ capture_state = "Capturing"
        /\ pc = "tick"
        /\ results # <<>>
        /\ LET window == LastN(Append(stability_buffer, Head(results)), STABILITY_TARGET)
           IN  /\ Len(window) = STABILITY_TARGET
               /\ SteadyWindow(window)
               /\ process_calls' = Append(process_calls, window)]_vars

\* Done reached after the window slid past a frame that prevented it
C2_Witness ==
    /\ capture_state = "Done"
    /\ Len(fed) > STABILITY_TARGET
    /\ ~SteadyWindow(fed)

\* C3: whenever CaptureButtonClicked takes Armed to Capturing, the stability
\* buffer is empty on entry.
C3_BufferEmptyOnEntry ==
    [][EntersCapturing => stability_buffer' = <<>>]_vars

\* C4: between two entries into Capturing there is at most one transition
\* to Done, and once it has happened no result is pushed into the stability
\* buffer, process() is not called and nothing is committed to the profile.
C4_OneDonePerCapture ==
    [][~EntersCapturing =>
        /\ done_count' <= 1
        /\ done_count >= 1 =>
              /\ stability_buffer' = stability_buffer
              /\ fed' = fed
              /\ process_calls' = process_calls
              /\ commit_count' = commit_count
              /\ capture_state' # "Capturing"]_vars

\* a result drained in the Tick that reached Done was processed after Done
C4_Witness ==
    /\ done_count = 1
    /\ pc = "tick"
    /\ done_this_tick
    /\ capture_state = "Done"
    /\ skipped >= 1

\* C5 as stated: Done is reset to Armed by a later Tick than the one in
\* which Done was entered.
C5_ResetByLaterTick ==
    [][(capture_state = "Done" /\ capture_state' = "Armed") => ~done_this_tick]_vars

\* C5 amended: Done is reset to Armed, with no user action, at the end of
\* the very Tick in which it was entered: the state is Done only inside that
\* Tick, only the end of the Tick changes it, and it changes it to Armed.
C5_ResetBySameTick ==
    [][capture_state = "Done" =>
        /\ pc = "tick"
        /\ done_this_tick
        /\ capture_state' \in {"Done", "Armed"}
        /\ (capture_state' = "Armed") <=> (pc' = "idle")]_vars

C5_Witness ==
    /\ capture_state = "Armed"
    /\ pc = "idle"
    /\ done_count = 1
    /\ done_this_tick

\* C6: in every reachable state with capture_state = Off the stability
\* buffer is empty, in particular right after measurement mode is disabled.
C6_OffHasEmptyBuffer ==
    capture_state = "Off" => stability_buffer = <<>>

\* measurement mode disabled while the buffer held frames not yet captured
C6_Witness ==
    /\ capture_state = "Off"
    /\ fed # <<>>
    /\ done_count = 0

\* C7: the stability buffer never holds more than STABILITY_TARGET frames,
\* and while Capturing it is the most recent STABILITY_TARGET (or fewer)
\* frames received, in arrival order: the frames it held on entry followed
\* by the results processed since.
C7_BufferIsRecentWindow ==
    /\ Len(stability_buffer) <= STABILITY_TARGET
    /\ capture_state = "Capturing" =>
          stability_buffer = LastN(entry_buffer \o fed, STABILITY_TARGET)

\* a push onto a full buffer has evicted the oldest frame
C7_Witness ==
    /\ capture_state = "Capturing"
    /\ Len(entry_buffer \o fed) > STABILITY_TARGET
    /\ Len(stability_buffer) = STABILITY_TARGET

(***************************************************************************)
(* Properties of process(), checked under SpecProcess.                     *)
(***************************************************************************)
\* C8 as stated: when several frames share the greatest confidence, the
\* measurement is built from the first of them.
C8_TieGoesToFirst ==
    (p_returned /\ p_operation = "BestConfidence" /\ Cardinality(MaxPositions(p_buffer)) >= 2)
        => BuiltFrom(p_result, p_buffer[FirstOf(MaxPositions(p_buffer))])

\* C8 amended: when several frames share the greatest confidence, the
\* measurement is built from the last of them in buffer order.
C8_TieGoesToLast ==
    (p_returned /\ p_operation = "BestConfidence" /\ Cardinality(MaxPositions(p_buffer)) >= 2)
        => BuiltFrom(p_result, p_buffer[LastOf(MaxPositions(p_buffer))])

C8_Witness ==
    /\ p_returned
    /\ p_operation = "BestConfidence"
    /\ Cardinality(MaxPositions(p_buffer)) >= 2
    /\ LastOf(MaxPositions(p_buffer)) < Len(p_buffer)
    /\ p_result # <<>>
    /\ ~BuiltFrom(p_result, p_buffer[FirstOf(MaxPositions(p_buffer))])

\* C9: for a non-empty buffer of pairwise distinct confidences, the
\* measurement is built from the frame of greatest confidence, wherever it
\* sits.
C9_DistinctMaxWins ==
    (p_returned /\ p_operation = "BestConfidence" /\ p_buffer # <<>>
        /\ PairwiseDistinctConfidences(p_buffer))
        => \E i \in 1..Len(p_buffer) :
              /\ \A j \in 1..Len(p_buffer) :
                    j # i => ConfidenceOf(p_buffer[j]) < ConfidenceOf(p_buffer[i])
              /\ BuiltFrom(p_result, p_buffer[i])

\* the greatest confidence sits strictly inside the buffer
C9_Witness ==
    /\ p_returned
    /\ p_operation = "BestConfidence"
    /\ Len(p_buffer) >= 3
    /\ PairwiseDistinctConfidences(p_buffer)
    /\ MaxPositions(p_buffer) = {2}
    /\ p_result # <<>>

C11_MeasurementOfWinningFrame ==
    (p_returned /\ p_operation = "BestConfidence") =>
        IF p_buffer = <<>> THEN p_result = <<>>
        ELSE LET frame == p_buffer[LastOf(MaxPositions(p_buffer))]
             IN  IF frame.note_name = <<>> \/ frame.detected_frequency = <<>>
                 THEN p_result = <<>>
                 ELSE /\ p_result # <<>>
                      /\ p_result[1].key_index \in 0..87
                      /\ NoteName(p_result[1].key_index) = frame.note_name[1]
                      /\ Len(p_result[1].partials) = Len(frame.partials) + 1
                      /\ p_result[1].partials[1] =
                            [number |-> 1, frequency |-> frame.detected_frequency[1]]
                      /\ \A n \in 2..(Len(frame.partials) + 1) :
                            p_result[1].partials[n] =
                                [number |-> n, frequency |-> frame.partials[n - 1]]

\* a measurement built from a winning frame that carries two overtones
C11_Witness ==
    /\ p_returned
    /\ p_operation = "BestConfidence"
    /\ p_result # <<>>
    /\ Len(p_result[1].partials) = 3
    /\ Len(p_buffer) > 1

\* the partials of a list that the regression uses
ValidCount(partials) ==
    Cardinality({i \in 1..Len(partials) :
                    partials[i].number > 0 /\ partials[i].frequency > 0})

AllValid(partials) == ValidCount(partials) = Len(partials)

\* two partials of different numbers
DistinctPairs(partials) ==
    {ij \in (1..Len(partials)) \X (1..Len(partials)) :
        partials[ij[1]].number # partials[ij[2]].number}

\* With x = n^2 and y = (f/n)^2, the line through the points of partials i
\* and j (of different numbers) has slope / intercept = LineNum / LineDen,
\* and its intercept has the sign of LineDen / (x_j - x_i).
LineNum(p, q) ==
    q.frequency * q.frequency * p.number * p.number
        - p.frequency * p.frequency * q.number * q.number
LineDen(p, q) ==
    p.frequency * p.frequency * q.number * q.number * q.number * q.number
        - q.frequency * q.frequency * p.number * p.number * p.number * p.number

\* the points of the list lie on one line y = f0^2 * (1 + B x) with f0 > 0,
\* B being num / den
OnLine(partials, num, den) ==
    /\ AllValid(partials)
    /\ DistinctPairs(partials) # {}
    /\ den > 0
    /\ \A i, j \in 1..Len(partials) :
          LET p == partials[i]
              q == partials[j]
          IN  IF p.number = q.number THEN p.frequency = q.frequency
              ELSE p.number < q.number =>
                     /\ LineDen(p, q) > 0
                     /\ Ratio(LineNum(p, q), LineDen(p, q)) = Ratio(num, den)

\* the B of the line through the points of a list that lies on one
LineB(partials) ==
    LET ij == CHOOSE ij \in DistinctPairs(partials) :
                  partials[ij[1]].number < partials[ij[2]].number
        p == partials[ij[1]]
        q == partials[ij[2]]
        r == Ratio(LineNum(p, q), LineDen(p, q))
    IN  r

\* C12: with fewer than 3 partials of number > 0 and frequency > 0,
\* whatever the length of the list, calculate_b_value returns no result and
\* leaves calculated_b as it was.
C12_FewValidGivesNone ==
    (b_returned /\ ValidCount(b_partials) < 3) =>
        (b_result = <<>> /\ b_calculated_b = b_prior)

\* C13 as stated: for a perfectly harmonic set (three or more valid
\* partials, f_n = n * f0, not all of one number) calculate_b_value returns
\* no result.
C13_HarmonicGivesNone ==
    (b_returned /\ Len(b_partials) >= 3 /\ OnLine(b_partials, 0, 1)) =>
        b_result = <<>>

\* C13 as the code has it: for a perfectly harmonic set (three or more
\* valid partials, f_n = n * f0, not all of one number) calculate_b_value
\* returns B = 0 and stores it.
C13_HarmonicGivesZero ==
    (b_returned /\ Len(b_partials) >= 3 /\ OnLine(b_partials, 0, 1)) =>
        /\ b_result # <<>>
        /\ b_result[1].num = 0
        /\ b_calculated_b = b_result

\* the harmonic series 43, 86, 129 has been evaluated
C13_Witness ==
    /\ b_returned
    /\ Len(b_partials) = 3
    /\ OnLine(b_partials, 0, 1)
    /\ \A i, j \in 1..3 : i # j => b_partials[i].number # b_partials[j].number
    /\ b_result # <<>>

\* C14: for three or more valid partials whose points lie on one line
\* y = f0^2 * (1 + B x), f0 > 0, calculate_b_value returns B and stores it
\* in calculated_b.
C14_RecoversB ==
    (b_returned /\ Len(b_partials) >= 3 /\ DistinctPairs(b_partials) # {}
                /\ OnLine(b_partials, LineB(b_partials).num, LineB(b_partials).den)) =>
        /\ b_result = <<LineB(b_partials)>>
        /\ b_calculated_b = b_result

\* three partials of the series 43, 94, 159 have given B = 120/1729
C14_Witness ==
    /\ b_returned
    /\ Len(b_partials) = 3
    /\ OnLine(b_partials, 120, 1729)
    /\ \A i, j \in 1..3 : i # j => b_partials[i].number # b_partials[j].number
    /\ b_result = <<[num |-> 120, den |-> 1729]>>
    /\ b_prior # <<>>

\* C15: for every key index i of 0..87, get_key_index_from_name of the
\* name of key i is i; no other key has that name; key 0 is "A0", key 48
\* is "A4" and key 87 is "C8".
C15_NameIndexRoundTrip ==
    /\ n_step >= 1 =>
          /\ \A j \in 0..87 :
                (j # n_key) =>
                    n_name # NOTE_NAMES[(j % 12) + 1] \o ToString((j + 9) \div 12)
          /\ (n_key = 0) => (n_name = "A0")
          /\ (n_key = 48) => (n_name = "A4")
          /\ (n_key = 87) => (n_name = "C8")
    /\ n_step = 2 => n_index = n_key

\* the round trip of the last key, C8, which is not the default index 0
C15_Witness ==
    /\ n_step = 2
    /\ n_key = 87
    /\ n_name = "C8"
    /\ n_index = 87

\* the four optional fields of a result are all present or all absent
AllOrNone(r) ==
    Cardinality({r.detected_frequency # <<>>, r.note_name # <<>>,
                 r.cents_deviation # <<>>, r.confidence # <<>>}) = 1

\* the results on their way to the consumer and those a Tick has collected
Reaching == results \o analysis_channel

C17_PanicDegradesOneFrame ==
    /\ Len(w_offered) = Len(w_log)
    /\ \A i \in 1..Len(w_log) :
          IF w_log[i].fault \/ Len(w_log[i].frame) # BUFFER_SIZE
          THEN /\ w_offered[i].detected_frequency = <<>>
               /\ w_offered[i].confidence = <<>>
               /\ w_offered[i].cents_deviation = <<>>
               /\ w_offered[i].note_name = <<>>
               /\ w_offered[i].spectrogram_data = <<>>
               /\ w_offered[i].partials = <<>>
          ELSE /\ w_offered[i].spectrogram_data = w_log[i].analysis.spectrum
               /\ (w_offered[i].confidence = <<>>) = (w_log[i].analysis.pyin = <<>>)
    /\ exit_pc \in {"running", "signalled"} =>
          \E k \in 0..Len(w_offered) :
              Reaching = SubSeq(w_offered, k + 1, Len(w_offered))
    /\ exit_pc = "running" => worker = "loop"

\* the analysis of the first frame panicked, the second frame has been
\* analysed and gave a note, and the worker is still in its loop
C17_Witness ==
    /\ Len(w_log) >= 2
    /\ w_log[1].fault
    /\ ~w_log[2].fault
    /\ w_offered[2].note_name # <<>>
    /\ Len(Reaching) >= 2
    /\ worker = "loop"
    /\ exit_pc = "running"

\* C18: the queues between producer and consumer stay below a fixed bound
\* because a full channel drops the new item: in a run in which the device
\* delivers MaxSamples samples, neither the frame channel nor the result
\* channel ever holds all MaxSamples / BUFFER_SIZE frames of the run.
C18_QueuesBounded ==
    /\ Len(raw_audio_channel) < MaxSamples \div BUFFER_SIZE
    /\ Len(analysis_channel) < MaxSamples \div BUFFER_SIZE

\* C19: a SaveProfile or LoadProfile that fails leaves the profile, the
\* capture state and the stability buffer as they were, and of the two
\* messages only a LoadProfile that succeeds changes the profile.
C19_FailedIoKeepsState ==
    [][io_count' # io_count =>
          /\ main_stderr' \in {"[MAIN] Error saving profile",
                               "[MAIN] Error loading profile"}
                => UNCHANGED <<inharmonicity_profile, capture_state, stability_buffer>>
          /\ inharmonicity_profile' # inharmonicity_profile
                => main_stderr' = "[MAIN] Tuning profile loaded successfully."]_vars

\* a LoadProfile has just failed while the profile holds a measurement and a
\* capture is in progress with a frame in the stability buffer
C19_Witness ==
    /\ main_stderr = "[MAIN] Error loading profile"
    /\ DOMAIN inharmonicity_profile # {}
    /\ capture_state = "Capturing"
    /\ stability_buffer # <<>>

\* what find_partials pushes for harmonic n alone: its loop run for that one n
partial_of_harmonic(spectrum_magnitudes, fundamental_freq, sample_rate, n) ==
    find_partials_from(spectrum_magnitudes, fundamental_freq, sample_rate, n - 1, n, <<>>)

\* C20: the entry at position i (counted from 0) of find_partials' output is
\* the frequency found for harmonic i + 2, also when a lower harmonic was
\* skipped; positions count from 1 here, so entry i belongs to harmonic i + 1.
C20_PositionIsHarmonic ==
    fp_returned =>
        \A i \in 1..Len(fp_result) :
            <<fp_result[i]>> = partial_of_harmonic(SpectrumOf(fp_shape), fp_fundamental_freq,
                                                   SAMPLE_RATE, i + 1)

\* the harmonics the loop of find_partials reaches: n in 2..=K+1 whose
\* expected frequency is not above the Nyquist frequency
ReachedHarmonics(fundamental_freq, sample_rate, K) ==
    {n \in 2..(K + 1) : 2 * fundamental_freq * n <= sample_rate}

\* the peak magnitude in the window of harmonic n exceeds 5% of the magnitude
\* of the fundamental bin
WindowPeakAbove(spectrum, fundamental_freq, sample_rate, n) ==
    LET len == Len(spectrum)
        buffer_size == 2 * len
        mag == Mag(spectrum, RoundDiv(fundamental_freq * buffer_size, sample_rate))
        start_bin == Min(((4 * n - 1) * fundamental_freq * buffer_size) \div (4 * sample_rate),
                         len - 1)
        end_bin == Min(((4 * n + 1) * fundamental_freq * buffer_size) \div (4 * sample_rate),
                       len - 1)
    IN  \E b \in start_bin..end_bin : 20 * Mag(spectrum, b) > mag

\* the fundamental is positive and its bin lies in the spectrum
FundamentalInSpectrum ==
    /\ fp_fundamental_freq > 0
    /\ RoundDiv(fp_fundamental_freq * 2 * SpectrumLen, SAMPLE_RATE) < SpectrumLen

\* C21: find_partials appends exactly one frequency for every reached
\* harmonic whose window peak exceeds 5% of the fundamental-bin magnitude,
\* also when the interpolation of that peak fails, and nothing for the other
\* harmonics; the output has at most K entries.
C21_OnePerStrongHarmonic ==
    (fp_returned /\ FundamentalInSpectrum) =>
        /\ Len(fp_result) =
              Cardinality({n \in ReachedHarmonics(fp_fundamental_freq, SAMPLE_RATE,
                                                  fp_max_partials) :
                              WindowPeakAbove(SpectrumOf(fp_shape), fp_fundamental_freq,
                                              SAMPLE_RATE, n)})
        /\ Len(fp_result) <= fp_max_partials

\* the vertex of the parabola through (-1, ln y_left), (0, ln y_center),
\* (1, ln y_right); a quotient of logarithms is the same in every base
VertexOffset(y) ==
    Ratio(Log2(y[1]) - Log2(y[3]), 2 * (Log2(y[1]) - 2 * Log2(y[2]) + Log2(y[3])))

\* (ln y_left - ln y_right) / (2 (2 ln y_center - ln y_left - ln y_right))
WrittenOffset(y) ==
    Ratio(Log2(y[1]) - Log2(y[3]), 2 * (2 * Log2(y[2]) - Log2(y[1]) - Log2(y[3])))

\* the frequency of peak bin 3n moved by offset, in whole Hz
OffsetFrequency(n, offset) ==
    RoundDiv((3 * n * offset.den + offset.num) * SAMPLE_RATE, offset.den * 2 * SpectrumLen)

\* harmonics 2..n each have a peak above the threshold that interpolates, so
\* that the entry of harmonic n is at position n - 1
FoundUpTo(n) ==
    /\ n <= fp_max_partials + 1
    /\ \A k \in 2..n : fp_shape[k] \in {"strong", "strong_flat"}

\* C22 as written: the refined frequency of a partial is that of its peak bin
\* moved by (ln y_left - ln y_right) / (2 (2 ln y_center - ln y_left - ln y_right)).
C22_OffsetAsWritten ==
    (fp_returned /\ FundamentalInSpectrum) =>
        \A n \in 2..4 :
            FoundUpTo(n) =>
                fp_result[n - 1] = OffsetFrequency(n, WrittenOffset(Level[fp_shape[n]]))

\* C22 amended: the refined frequency of a partial is that of its peak bin
\* moved by (ln y_left - ln y_right) / (2 (ln y_left - 2 ln y_center + ln y_right)),
\* the vertex of the parabola: towards the larger neighbour.
C22_OffsetIsVertex ==
    (fp_returned /\ FundamentalInSpectrum) =>
        \A n \in 2..4 :
            FoundUpTo(n) =>
                fp_result[n - 1] = OffsetFrequency(n, VertexOffset(Level[fp_shape[n]]))

\* a peak with the larger neighbour on the right was refined upwards and a
\* peak with the larger neighbour on the left downwards
C22_Witness ==
    /\ fp_returned
    /\ fp_fundamental_freq = 300
    /\ fp_shape[2] = "strong"
    /\ fp_shape[3] = "strong_flat"
    /\ Len(fp_result) >= 2
    /\ fp_result[1] > 600
    /\ fp_result[2] < 900

\* d'(tau) for the frame handed to the detectors
DPrime(tau) == yin_difference(y_signal, Len(y_signal))[tau + 1]

\* the lags tau >= 2 with d'(tau) < 0.10 and d'(tau) < d'(tau - 1)
YinDips ==
    {tau \in 2..((Len(y_signal) \div 2) - 1) :
        /\ RatLess(DPrime(tau), Ratio(1, 10))
        /\ RatLess(DPrime(tau), DPrime(tau - 1))}

\* the smallest member of a non-empty set of lags
Smallest(S) == CHOOSE t \in S : \A u \in S : t <= u

\* the frequency in whole Hz for the period tau
FrequencyOfPeriod(tau) ==
    LET period_float == period_float_of(yin_difference(y_signal, Len(y_signal)), tau)
    IN  RoundDiv(y_sample_rate * period_float.den, period_float.num)

PyinDips ==
    {tau \in 2..((Len(y_signal) \div 2) - 2) :
        /\ RatLess(DPrime(tau), DPrime(tau - 1))
        /\ RatLess(DPrime(tau), DPrime(tau + 1))}

\* C24: on a frame that passes the length test and the noise gate,
\* detect_pitch_pyin selects a local minimum of d' that no other local
\* minimum undercuts, and a pitch it returns is that of this period; it
\* returns no pitch when there is no local minimum or the selected value
\* exceeds the clarity threshold 0.1.
C24_PyinTakesLowestDip ==
    (/\ y_pyin.returned
     /\ Len(y_signal) >= 4
     /\ ~rms_below(y_signal, y_amplitude_threshold)) =>
        IF PyinDips = {}
        THEN y_pyin.period = 0 /\ y_pyin.result = None
        ELSE /\ y_pyin.period \in PyinDips
             /\ \A u \in PyinDips : ~RatLess(DPrime(u), DPrime(y_pyin.period))
             /\ RatLess(Ratio(1, 10), DPrime(y_pyin.period)) => y_pyin.result = None
             /\ IsSome(y_pyin.result) =>
                   Unwrap(y_pyin.result)[1] = FrequencyOfPeriod(y_pyin.period)

\* pYIN returned the pitch of a local minimum that is not the first one: an
\* earlier local minimum has a higher d', and YIN took that earlier lag
C24_Witness ==
    /\ y_pyin.returned
    /\ IsSome(y_pyin.result)
    /\ \E t \in PyinDips : t < y_pyin.period /\ RatLess(DPrime(y_pyin.period), DPrime(t))
    /\ y_yin.returned
    /\ IsSome(y_yin.result)
    /\ y_yin.period < y_pyin.period

\* every sample of the frame is 0
AllZero(signal) == \A i \in 1..Len(signal) : signal[i] = 0

NextWindow == LastN(Append(stability_buffer, Head(results)), STABILITY_TARGET)

\* the profile after the step equals the one before it except at key, where
\* it holds one entry (a new one or a replacement)
OneEntryWritten(key) ==
    /\ DOMAIN inharmonicity_profile' = (DOMAIN inharmonicity_profile) \cup {key}
    /\ \A k \in (DOMAIN inharmonicity_profile) \ {key} :
          inharmonicity_profile'[k] = inharmonicity_profile[k]

\* C26: every Capturing -> Done transition empties the stability buffer and
\* inserts or overwrites exactly one profile entry; the map key of that entry
\* and its key_index are both the key index of the note name that all frames
\* of the stable window share, and the window always yields a measurement.
C26_DoneWritesOneEntry ==
    [][EntersDone =>
        /\ capture_state = "Capturing"
        /\ stability_buffer' = <<>>
        /\ \A i \in 1..Len(NextWindow) : NextWindow[i].note_name = NextWindow[1].note_name
        /\ IsSome(NextWindow[1].note_name)
        /\ IsSome(process(NextWindow, "BestConfidence"))
        /\ commit_count' = commit_count + 1
        /\ LET key == get_key_index_from_name(Unwrap(NextWindow[1].note_name))
           IN  /\ OneEntryWritten(key)
               /\ inharmonicity_profile'[key].key_index = key
               /\ inharmonicity_profile'[key] = Unwrap(process(NextWindow, "BestConfidence"))]_vars

\* Done reached: the buffer is drained and the profile holds the entry of
\* the captured note under that note's key
C26_Witness ==
    /\ capture_state = "Done"
    /\ stability_buffer = <<>>
    /\ Len(process_calls) = 1
    /\ LET key == get_key_index_from_name(Unwrap(process_calls[1][1].note_name))
       IN  /\ key \in DOMAIN inharmonicity_profile
           /\ key > 0
           /\ inharmonicity_profile[key].key_index = key

\* the step processes one collected result (one turn of the Tick loop)
ProcessesResult == pc = "tick" /\ results # <<>> /\ results' = Tail(results)

\* the stability predicate holds for the window the next result completes
StabilityHolds == Len(NextWindow) = STABILITY_TARGET /\ SteadyWindow(NextWindow)

\* C27: the profile changes only in a Capturing -> Done transition or in a
\* LoadProfile that succeeds; a result processed in Off, Armed or Done, or in
\* Capturing while the stability predicate does not hold, leaves the profile
\* unchanged, and a result processed in Off, Armed or Done leaves the
\* stability buffer unchanged as well.
C27_ProfileWriters ==
    [][/\ inharmonicity_profile' # inharmonicity_profile =>
             \/ capture_state = "Capturing" /\ capture_state' = "Done"
             \/ /\ io_count' # io_count
                /\ main_stderr' = "[MAIN] Tuning profile loaded successfully."
       /\ (ProcessesResult /\ capture_state \in {"Off", "Armed", "Done"}) =>
             UNCHANGED <<inharmonicity_profile, stability_buffer>>
       /\ (ProcessesResult /\ capture_state = "Capturing" /\ ~StabilityHolds) =>
             UNCHANGED inharmonicity_profile]_vars

\* a profile written by a capture has then seen a result processed outside
\* Capturing and a SaveProfile, and still holds its entry
C27_Witness ==
    /\ done_count = 1
    /\ skipped >= 1
    /\ DOMAIN inharmonicity_profile # {}
    /\ main_stderr = "[MAIN] Tuning profile saved successfully."
    /\ capture_state = "Armed"

\* a message can be handled: no update() call is in progress
BetweenUpdates == pc = "idle"

\* the guard of the Done arm of ToggleMeasurementMode and of the Done arm of
\* CaptureButtonClicked: the message is handled while the state is Done
DoneArmTaken == BetweenUpdates /\ capture_state = "Done"

\* C28: capture_state is never Done when an update() call has returned: Done
\* exists only inside the Tick that entered it, so neither
\* ToggleMeasurementMode nor CaptureButtonClicked is ever handled in Done.
C28_NeverDoneBetweenUpdates ==
    /\ ~DoneArmTaken
    /\ capture_state = "Done" => (pc = "tick" /\ done_this_tick /\ done_count = 1)

\* the Tick that entered Done has returned with further results already
\* waiting in the channel; the state is Armed again
C28_Witness ==
    /\ BetweenUpdates
    /\ done_this_tick
    /\ done_count = 1
    /\ capture_state = "Armed"
    /\ analysis_channel # <<>>

(***************************************************************************)
(* Properties of the capture callback and of the worker's shutdown,        *)
(* checked under SpecAudio.                                                *)
(***************************************************************************)
\* every frame the callback has sent so far, in sending order: those the
\* worker has received, then those still in the raw-audio channel
SentFrames == [i \in 1..Len(w_log) |-> w_log[i].frame] \o raw_audio_channel

\* C29: every frame the callback sends has exactly BUFFER_SIZE samples; the
\* k-th frame is the k-th run of BUFFER_SIZE consecutive samples of the
\* incoming stream, so no sample is in two frames; and after a callback the
\* accumulation buffer holds the samples that follow the last frame, fewer
\* than BUFFER_SIZE of them, whatever the sizes of the chunks.
C29_FramesSliceTheStream ==
    /\ \A k \in 1..Len(SentFrames) :
          /\ Len(SentFrames[k]) = BUFFER_SIZE
          /\ \A j \in 1..BUFFER_SIZE : SentFrames[k][j] = (k - 1) * BUFFER_SIZE + j
    /\ Len(audio_buffer) < BUFFER_SIZE
    /\ \A j \in 1..Len(audio_buffer) :
          audio_buffer[j] = Len(SentFrames) * BUFFER_SIZE + j
    /\ Len(SentFrames) * BUFFER_SIZE + Len(audio_buffer) = samples_in

\* chunks that do not line up with the frames: two frames sent, the worker
\* has taken one of them, and a sample waits in the accumulation buffer
C29_Witness ==
    /\ Len(SentFrames) = 2
    /\ Len(w_log) = 1
    /\ Len(audio_buffer) = 1

\* the shutdown signal has been sent (the Exit handler drops the result
\* receiver only after it); the raw-audio channel cannot close while the
\* loop runs, its sender being owned by the stream the worker holds
ShutdownRequested == exit_pc # "running"

\* the worker has left its loop, paused and dropped the stream, and ended
WorkerStopped == worker = "exited" /\ stream = "dropped"

\* C30: once the shutdown signal has been sent or the result receiver has
\* been dropped, the worker loop eventually exits and pauses the stream, also
\* while frames keep arriving, and once out of its loop the worker hands no
\* further result to the result channel.
C30_WorkerEventuallyStops ==
    /\ ShutdownRequested ~> WorkerStopped
    /\ [][worker # "loop" => w_offered' = w_offered]_vars

====
